---- MODULE Spec2Model ----
(***************************************************************************)
(* Contribution-aggregation pipeline of git-activity-tracer:               *)
(*   - the Deduplicator   (src/lib/services/contributionDeduplicator.ts)   *)
(*   - the Cache Store    (src/lib/services/reportGenerator.ts, 186-409)   *)
(*   - the Report Generator (src/lib/services/reportGenerator.ts, 1-184)   *)
(*   - the GitHub connector (src/unnamed/part_020)                         *)
(*   - the GitLab connector (src/utils.ts, 200-605)                        *)
(*                                                                         *)
(* Strings of the program are TLA+ strings; an absent optional field       *)
(* (JavaScript undefined) is the distinguished value UNDEF.                *)
(***************************************************************************)
EXTENDS Integers, Sequences, FiniteSets, TLC

VARIABLES
    \* ---- Deduplicator runs
    dpc,            \* position of the deduplication run
    contributions,  \* the input list handed to deduplicateContributions
    baseBranches,   \* Configuration.baseBranches in force
    result,         \* deduplicateContributions(contributions)
    again,          \* deduplicateContributions(result)
    permuted,       \* a permutation of the input
    permutedResult  \* deduplicateContributions(permuted)

dedupVars == <<dpc, contributions, baseBranches, result, again, permuted, permutedResult>>

VARIABLES
    \* ---- Cache Store
    directory,      \* what stands at the path of the cache directory
    files,          \* the cache directory: filename -> content of the file
    saves,          \* the saveCache calls that were fulfilled, in the order they returned
    calls           \* the calls made, each with the await it stands at and what it has read

cacheVars == <<directory, files, saves, calls>>

VARIABLES
    \* ---- Report Generator
    rcall,                \* the report called: generateReport or generateCommitsReport
    rpc,                  \* position of the call
    settled,              \* per connector: the outcome of the promise handed to Promise.allSettled
    calledBoth,           \* generateCommitsReport, per connector: the outcomes of its two fetch calls
    repositoryProjectIds, \* Configuration.repositoryProjectIds
    report                \* what the call returned

reportVars == <<rcall, rpc, settled, calledBoth, repositoryProjectIds, report>>

VARIABLES
    \* ---- GitHub connector
    gcall,          \* the fetch method called: fetchContributions or fetchAllCommits
    gpc,            \* position of the call
    identity,       \* outcome of the identity call (users.getAuthenticated)
    discovery,      \* outcome of the aggregate discovery query
    login,          \* the login getUserLogin resolved
    prReviews,      \* pull-request and review nodes of the aggregate response
    tasks,          \* fetchContributions: one task per repository of the response
    rtasks,         \* fetchAllCommits: one task per discovered repository
    served,         \* commit nodes the upstream has served so far
    gresult         \* what the call returned

githubVars == <<gcall, gpc, identity, discovery, login, prReviews, tasks, rtasks, served, gresult>>

VARIABLES
    \* ---- GitLab connector
    lpc,            \* fetchContributions: "start" (not called), "user", "identified",
                    \* "pushProject", "events", "mergeRequestProject" (the request it
                    \* waits for), "returned", "failed"
    configuration,  \* the Configuration the connector was constructed with
    userId,         \* this.userId: the id the connector keeps
    gitlabLogin,    \* the promise of the last getUserLogin call
    events,         \* what fetchEventsApiData returned
    extracting,     \* the extract... loop under way: position, contributions, projectCache
    mergeRequests,  \* what fetchMergeRequests returned
    gathered,       \* allContributions, as far as collected
    lresult         \* what the call returned

gitlabVars == <<lpc, configuration, userId, gitlabLogin, events, extracting, mergeRequests,
               gathered, lresult>>

vars == <<dedupVars, cacheVars, reportVars, githubVars, gitlabVars>>

----------------------------------------------------------------------------
(* Bounds *)

MaxLen == 3
MaxSaves == 2
ConnectorCount == 2
MaxPages == 2
MaxCalls == 2

----------------------------------------------------------------------------
(* JavaScript values *)

UNDEF == "<undefined>"

\* JavaScript truthiness of an optional string: undefined and '' are falsy
Truthy(s) == s # UNDEF /\ s # ""

\* s ?? ''
OrEmpty(s) == IF s = UNDEF THEN "" ELSE s

\* String.prototype.toLowerCase on the branch vocabulary of the model
toLowerCase(s) ==
    CASE s = "Main" -> "main"
      [] s = "MASTER" -> "master"
      [] OTHER -> s

SeqToSet(s) == { s[i] : i \in DOMAIN s }

\* no promise yet: the method has not been called
NotCalled == [status |-> "none", value |-> <<>>]

\* a fulfilled or rejected promise of a list
Fulfilled(value) == [status |-> "fulfilled", value |-> value]
Rejected == [status |-> "rejected", value |-> <<>>]

\* a promise rejected with the error a disk operation raised (its code)
Thrown(error) == [status |-> "rejected", value |-> <<>>, error |-> error]

RECURSIVE Flat(_)
\* Array.prototype.flat on a list of lists
Flat(ls) == IF ls = <<>> THEN <<>> ELSE Head(ls) \o Flat(Tail(ls))

----------------------------------------------------------------------------
(* Contribution model (src/types.ts) *)

ContributionType == {"commit", "pr", "review"}

Contribution(type, timestamp, text, url, repository, target) ==
    [type |-> type, timestamp |-> timestamp, text |-> text, url |-> url,
     repository |-> repository, target |-> target, projectId |-> UNDEF]

T1 == "2025-01-01T10:00:00Z"
T1b == "2025-01-01T11:00:00+01:00"
T2 == "2025-01-02T10:00:00Z"
T3 == "2025-01-03T10:00:00Z"

\* Date.parse / new Date(s).getTime() on the timestamp vocabulary, in hours
\* since 2025-01-01T00:00:00Z (T1 and T1b denote the same instant)
DateParse(s) ==
    CASE s = T1 -> 10
      [] s = T1b -> 10
      [] s = T2 -> 34
      [] s = T3 -> 58
      [] s = "2025-01-01T00:00:00.000Z" -> 0
      [] s = "2025-01-02T23:59:59.999Z" -> 47
      [] s = "2024-12-31T23:00:00Z" -> -1

----------------------------------------------------------------------------
(* Deduplicator (src/lib/services/contributionDeduplicator.ts, 62-162) *)

BASE_BRANCHES == <<"main", "master", "develop", "development", "trunk">>

makeKeyIgnoringType(contribution) ==
    IF Truthy(contribution.url)
    THEN "commit|" \o contribution.url
    ELSE contribution.type \o "|" \o contribution.timestamp \o "|"
           \o OrEmpty(contribution.url) \o "|" \o OrEmpty(contribution.text) \o "|"
           \o OrEmpty(contribution.repository) \o "|" \o OrEmpty(contribution.target)

makeKey(contribution) ==
    IF Truthy(contribution.url) /\ contribution.type = "commit"
    THEN "commit|" \o contribution.url
    ELSE IF Truthy(contribution.url)
            /\ (contribution.type = "pr" \/ contribution.type = "review")
    THEN contribution.type \o "|" \o contribution.url
    ELSE contribution.type \o "|" \o contribution.timestamp \o "|"
           \o OrEmpty(contribution.url) \o "|" \o OrEmpty(contribution.text) \o "|"
           \o OrEmpty(contribution.repository) \o "|" \o OrEmpty(contribution.target)

isBaseBranch(branchName) ==
    IF ~Truthy(branchName) THEN FALSE
    ELSE \E i \in DOMAIN BASE_BRANCHES : BASE_BRANCHES[i] = toLowerCase(branchName)

preferContributionLastWins(existing, candidate) ==
    IF isBaseBranch(existing.target) /\ ~isBaseBranch(candidate.target)
    THEN existing
    ELSE candidate

preferContributionTargetOnly(existing, candidate) ==
    IF Truthy(candidate.target) /\ ~Truthy(existing.target) THEN candidate ELSE existing

preferContribution(existing, candidate) ==
    LET existingIsBaseBranch == isBaseBranch(existing.target)
        candidateIsBaseBranch == isBaseBranch(candidate.target)
    IN  IF candidateIsBaseBranch /\ ~existingIsBaseBranch THEN candidate
        ELSE IF existingIsBaseBranch /\ ~candidateIsBaseBranch THEN existing
        ELSE IF Truthy(candidate.target) /\ ~Truthy(existing.target) THEN candidate
        ELSE existing

\* seen.set(key, value) on a Map kept as the list of its entries in insertion
\* order: a new key is appended, an existing key keeps its place
MapSet(seen, key, value) ==
    IF \E i \in DOMAIN seen : seen[i].key = key
    THEN [i \in DOMAIN seen |->
            IF seen[i].key = key THEN [key |-> key, value |-> value] ELSE seen[i]]
    ELSE Append(seen, [key |-> key, value |-> value])

MapGet(seen, key) ==
    (CHOOSE e \in SeqToSet(seen) : e.key = key).value

RECURSIVE DedupLoop(_, _)
\* the for-loop of deduplicateContributions over the rest of the input
DedupLoop(seen, rest) ==
    IF rest = <<>> THEN seen
    ELSE LET contribution == Head(rest)
             key == makeKey(contribution)
         IN  IF ~(\E i \in DOMAIN seen : seen[i].key = key)
             THEN DedupLoop(MapSet(seen, key, contribution), Tail(rest))
             ELSE DedupLoop(
                    MapSet(seen, key, preferContribution(MapGet(seen, key), contribution)),
                    Tail(rest))

\* the index-skipping removal loop: after a duplicate is removed the element
\* that follows it is passed over unexamined
RECURSIVE SpliceLoop(_, _, _)
SpliceLoop(keys, kept, rest) ==
    IF rest = <<>> THEN kept
    ELSE IF makeKey(Head(rest)) \in keys
         THEN IF Len(rest) >= 2
              THEN SpliceLoop(keys, Append(kept, rest[2]), Tail(Tail(rest)))
              ELSE kept
         ELSE SpliceLoop(keys \cup {makeKey(Head(rest))}, Append(kept, Head(rest)), Tail(rest))

deduplicateContributionsSplice(cs) == SpliceLoop({}, <<>>, cs)

deduplicateContributions(cs) ==
    LET seen == DedupLoop(<<>>, cs)
    IN  [i \in DOMAIN seen |-> seen[i].value]

----------------------------------------------------------------------------
(* Inputs of the Deduplicator runs *)

CommitUrl1 == "https://github.com/o/r/commit/a1"
CommitUrl2 == "https://github.com/o/r/commit/b2"

DedupUniverse ==
    { Contribution("commit", T1, "fix", CommitUrl1, "o/r", t) :
        t \in {UNDEF, "main", "Main", "trunk", "staging", "feature-x"} }
    \cup
    { Contribution("pr", T1, "fix", CommitUrl1, "o/r", "main"),
      Contribution("commit", T2, "add", CommitUrl2, "o/r", "main"),
      Contribution("commit", T1, "a", UNDEF, "o/r", "x|y"),
      Contribution("commit", T1, "a|o/r", UNDEF, "x", "y"),
      Contribution("commit", T1, UNDEF, UNDEF, "o/r", "main"),
      Contribution("commit", T1, "", "", "o/r", "main") }

\* DEFAULT_CONFIGURATION.baseBranches and the README's customised example
DefaultBaseBranches == <<"main", "master", "develop", "development">>
ReadmeBaseBranches == <<"main", "master", "develop", "development", "trunk", "staging">>

ListsUpTo(S, n) == UNION { [1..k -> S] : k \in 0..n }

Permute(xs, p) == [i \in DOMAIN xs |-> xs[p[i]]]

PermutationsOf(n) == { p \in [1..n -> 1..n] : \A i, j \in 1..n : p[i] = p[j] => i = j }

CacheIdle == directory = "absent" /\ files = <<>> /\ saves = <<>> /\ calls = <<>>

GitLabIdle ==
    /\ lpc = "idle"
    /\ configuration = [baseBranches |-> <<>>]
    /\ userId = UNDEF
    /\ gitlabLogin = NotCalled
    /\ events = <<>>
    /\ extracting = <<>>
    /\ mergeRequests = <<>>
    /\ gathered = <<>>
    /\ lresult = <<>>

GitHubIdle ==
    /\ gcall = "none"
    /\ gpc = "idle"
    /\ identity = "pending"
    /\ discovery = "pending"
    /\ login = UNDEF
    /\ prReviews = <<>>
    /\ tasks = <<>>
    /\ rtasks = <<>>
    /\ served = {}
    /\ gresult = <<>>

ReportIdle ==
    /\ rcall = "idle"
    /\ rpc = "idle"
    /\ settled = <<>>
    /\ calledBoth = <<>>
    /\ repositoryProjectIds = <<>>
    /\ report = <<>>

DedupInit ==
    /\ CacheIdle
    /\ ReportIdle
    /\ GitHubIdle
    /\ GitLabIdle
    /\ dpc = "input"
    /\ contributions \in ListsUpTo(DedupUniverse, MaxLen)
    /\ baseBranches \in {DefaultBaseBranches, ReadmeBaseBranches}
    /\ result = <<>>
    /\ again = <<>>
    /\ permuted = <<>>
    /\ permutedResult = <<>>

Deduplicate ==
    /\ dpc = "input"
    /\ result' = deduplicateContributions(contributions)
    /\ dpc' = "deduplicated"
    /\ UNCHANGED <<contributions, baseBranches, again, permuted, permutedResult>>
    /\ UNCHANGED <<cacheVars, reportVars, githubVars, gitlabVars>>

DeduplicateAgain ==
    /\ dpc = "deduplicated"
    /\ again' = deduplicateContributions(result)
    /\ dpc' = "again"
    /\ UNCHANGED <<contributions, baseBranches, result, permuted, permutedResult>>
    /\ UNCHANGED <<cacheVars, reportVars, githubVars, gitlabVars>>

DeduplicatePermutation ==
    /\ dpc = "deduplicated"
    /\ \E p \in PermutationsOf(Len(contributions)) :
         /\ permuted' = Permute(contributions, p)
         /\ permutedResult' = deduplicateContributions(Permute(contributions, p))
    /\ dpc' = "permuted"
    /\ UNCHANGED <<contributions, baseBranches, result, again>>
    /\ UNCHANGED <<cacheVars, reportVars, githubVars, gitlabVars>>

DedupNext == Deduplicate \/ DeduplicateAgain \/ DeduplicatePermutation

SpecDedup == DedupInit /\ [][DedupNext]_vars

----------------------------------------------------------------------------
(* Cache Store (src/lib/services/reportGenerator.ts, 186-409) *)

CACHE_DIRECTORY_NAME == ".git-activity-tracer"
CACHE_SUBDIRECTORY_NAME == "cache"

\* path.join(os.homedir(), CACHE_DIRECTORY_NAME, CACHE_SUBDIRECTORY_NAME)
getCacheDirectoryPath == "~" \o "/" \o CACHE_DIRECTORY_NAME \o "/" \o CACHE_SUBDIRECTORY_NAME

\* a file name built from the username as it is
SanitizeUsernameKeeping(username) == username

\* username.replace(/[^a-zA-Z0-9-_]/g, '_') on the username vocabulary
SanitizeUsername(username) ==
    CASE username = "octo.cat" -> "octo_cat"
      [] username = "octo@cat" -> "octo_cat"
      [] username = "octo cat" -> "octo_cat"
      [] username = "user@example.com" -> "user_example_com"
      [] username = "a/b" -> "a_b"
      [] username = ".." -> "__"
      [] OTHER -> username

getCacheFilePathIgnoringUser(platform, username) ==
    getCacheDirectoryPath \o "/" \o platform \o "-" \o "user" \o ".json"

getCacheFilePath(platform, username) ==
    getCacheDirectoryPath \o "/" \o platform \o "-" \o SanitizeUsername(username) \o ".json"

RECURSIVE InsertAscending(_, _)
\* place x behind every element that does not compare greater than it
InsertAscending(sorted, x) ==
    IF sorted = <<>> THEN <<x>>
    ELSE IF DateParse(Head(sorted).timestamp) - DateParse(x.timestamp) <= 0
         THEN <<Head(sorted)>> \o InsertAscending(Tail(sorted), x)
         ELSE <<x>> \o sorted

RECURSIVE SortAscending(_)
\* Array.prototype.sort (stable) with (a, b) => time(a) - time(b)
SortAscending(cs) ==
    IF cs = <<>> THEN <<>>
    ELSE InsertAscending(SortAscending(SubSeq(cs, 1, Len(cs) - 1)), cs[Len(cs)])

RECURSIVE InsertDescending(_, _)
InsertDescending(sorted, x) ==
    IF sorted = <<>> THEN <<x>>
    ELSE IF DateParse(x.timestamp) - DateParse(Head(sorted).timestamp) <= 0
         THEN <<Head(sorted)>> \o InsertDescending(Tail(sorted), x)
         ELSE <<x>> \o sorted

RECURSIVE SortDescending(_)
\* Array.prototype.sort (stable) with (a, b) => time(b) - time(a)
SortDescending(cs) ==
    IF cs = <<>> THEN <<>>
    ELSE InsertDescending(SortDescending(SubSeq(cs, 1, Len(cs) - 1)), cs[Len(cs)])

\* What a path of the cache directory holds.  json tells what JSON.parse
\* makes of the text: "entry" (a CacheEntry), "{}" (an object without
\* contributions), "null", "invalid" (JSON.parse throws) or "empty" (no
\* text at all, on which JSON.parse throws as well); readable is
\* FALSE when readFile fails with an error other than ENOENT.

\* a path that names no file (readFile fails with ENOENT)
NoFile == [exists |-> FALSE, readable |-> FALSE, json |-> "invalid",
           metadata |-> <<>>, contributions |-> <<>>]

\* a file whose text is not a CacheEntry
DamagedFile(readable, json) ==
    [exists |-> TRUE, readable |-> readable, json |-> json,
     metadata |-> <<>>, contributions |-> <<>>]

FileAt(fs, path) == IF path \in DOMAIN fs THEN fs[path] ELSE NoFile

\* loadCache with the catch block passing on every error but ENOENT
loadCacheRethrowing(fs, platform, username) ==
    LET file == FileAt(fs, getCacheFilePath(platform, username))
    IN  IF ~file.exists THEN Fulfilled(<<>>)
        ELSE IF ~file.readable \/ file.json \in {"invalid", "empty", "null"} THEN Rejected
        ELSE IF file.json = "{}" THEN Fulfilled(<<>>)
        ELSE Fulfilled(file.contributions)

\* loadCache: the promise it returns.  readFile failing (ENOENT or other),
\* JSON.parse throwing and the property access on null throwing all end in
\* the catch block, which returns []; an object without contributions
\* yields [] through `|| []`.
loadCache(fs, platform, username) ==
    LET file == FileAt(fs, getCacheFilePath(platform, username))
    IN  IF ~file.exists THEN Fulfilled(<<>>)
        ELSE IF ~file.readable THEN Fulfilled(<<>>)
        ELSE IF file.json = "invalid" THEN Fulfilled(<<>>)
        ELSE IF file.json = "empty" THEN Fulfilled(<<>>)
        ELSE IF file.json = "null" THEN Fulfilled(<<>>)
        ELSE IF file.json = "{}" THEN Fulfilled(<<>>)
        ELSE Fulfilled(file.contributions)

\* the entry saveCache writes, given what loadCache returned
CacheEntryOverwriting(existingContributions, platform, username, newContributions, now) ==
    LET sorted == SortAscending(deduplicateContributions(newContributions))
    IN  [exists |-> TRUE, readable |-> TRUE, json |-> "entry",
         metadata |-> [platform |-> platform,
                       username |-> username,
                       lastUpdated |-> now[1],
                       contributionCount |-> Len(sorted),
                       dateRange |-> [earliest |-> IF Len(sorted) > 0 THEN sorted[1].timestamp ELSE now[2],
                                      latest |-> IF Len(sorted) > 0 THEN sorted[Len(sorted)].timestamp ELSE now[3]]],
         contributions |-> sorted]

\* a cache entry written without the sort
CacheEntryUnsorted(existingContributions, platform, username, newContributions, now) ==
    LET sorted == deduplicateContributions(existingContributions \o newContributions)
    IN  [exists |-> TRUE, readable |-> TRUE, json |-> "entry",
         metadata |-> [platform |-> platform,
                       username |-> username,
                       lastUpdated |-> now[1],
                       contributionCount |-> Len(sorted),
                       dateRange |-> [earliest |-> IF Len(sorted) > 0 THEN sorted[1].timestamp ELSE now[2],
                                      latest |-> IF Len(sorted) > 0 THEN sorted[Len(sorted)].timestamp ELSE now[3]]],
         contributions |-> sorted]

\* a cache entry whose metadata describe the new batch instead of what is stored
CacheEntryDescribingBatch(existingContributions, platform, username, newContributions, now) ==
    LET sorted == SortAscending(deduplicateContributions(existingContributions \o newContributions))
        batch == SortAscending(deduplicateContributions(newContributions))
    IN  [exists |-> TRUE, readable |-> TRUE, json |-> "entry",
         metadata |-> [platform |-> platform,
                       username |-> username,
                       lastUpdated |-> now[1],
                       contributionCount |-> Len(batch),
                       dateRange |-> [earliest |-> IF Len(batch) > 0 THEN batch[1].timestamp ELSE now[2],
                                      latest |-> IF Len(batch) > 0 THEN batch[Len(batch)].timestamp ELSE now[3]]],
         contributions |-> sorted]

\* lines 286-309 of saveCache.  now holds the three readings of the clock,
\* new Date().toISOString() for lastUpdated, for dateRange.earliest and for
\* dateRange.latest; the last two are taken only when nothing is stored
CacheEntry(existingContributions, platform, username, newContributions, now) ==
    LET allContributions == existingContributions \o newContributions
        deduplicated == deduplicateContributions(allContributions)
        sorted == SortAscending(deduplicated)
    IN  [exists |-> TRUE, readable |-> TRUE, json |-> "entry",
         metadata |-> [platform |-> platform,
                       username |-> username,
                       lastUpdated |-> now[1],
                       contributionCount |-> Len(sorted),
                       dateRange |-> [earliest |-> IF Len(sorted) > 0 THEN sorted[1].timestamp ELSE now[2],
                                      latest |-> IF Len(sorted) > 0 THEN sorted[Len(sorted)].timestamp ELSE now[3]]],
         contributions |-> sorted]

\* fs.writeFile(path, content): the file at path now holds content
WriteFile(fs, path, content) ==
    [q \in DOMAIN fs \cup {path} |-> IF q = path THEN content ELSE fs[q]]

\* the file fs.writeFile has opened with flag 'w' and not written yet: its
\* text is empty, JSON.parse throws on it
TruncatedFile == DamagedFile(TRUE, "empty")

\* ensureCacheDirectory on the outcome of fs.mkdir(directoryPath, {recursive}):
\* "ok", or the code of the error it raised; only EEXIST is swallowed (an
\* error without a code property would be too: the errors of fs carry one)
ensureCacheDirectory(mkdir) ==
    IF mkdir = "ok" \/ mkdir = "EEXIST" THEN Fulfilled(<<>>) ELSE Thrown(mkdir)

\* the await of line 313 with the failure of writeFile caught and dropped
AwaitWriteFileSwallowing(write) == Fulfilled(<<>>)

\* await fs.writeFile(...) is the last statement of saveCache and stands in
\* no try block: saveCache is fulfilled when writeFile is, and rejected with
\* the error of writeFile otherwise
AwaitWriteFile(write) == IF write = "ok" THEN Fulfilled(<<>>) ELSE Thrown(write)

(* Inputs of the Cache Store *)

\* fs.readFile on a file the process may read: it gives the text or fails
ReadOutcomes == {"ok", "EIO"}

Platforms == {"github"}

\* new Date().toISOString() at the time of a save, one millisecond later and
\* two milliseconds later
Now == "2025-01-03T10:00:00.000Z"
Later == "2025-01-03T10:00:00.001Z"
Latest == "2025-01-03T10:00:00.002Z"

\* the three readings of the clock one saveCache call takes, in the order it
\* takes them.  Date reads the wall clock: between two readings it may stand,
\* go on, or be set back, so the three stand in any order
ClockReadings == {Now, Later, Latest} \X {Now, Later, Latest} \X {Now, Later, Latest}

FeatureCommit == Contribution("commit", T2, "fix", CommitUrl1, "o/r", "feature-x")
MainCommit == Contribution("commit", T2, "fix", CommitUrl1, "o/r", "main")
TrunkCommit == Contribution("commit", T2, "fix", CommitUrl1, "o/r", "trunk")
EarlyCommit == Contribution("commit", T1, "add", CommitUrl2, "o/r", "main")
EarlyPr == Contribution("pr", T1b, "add", "https://github.com/o/r/pull/1", "o/r", "main")
LocalCommit == Contribution("commit", T1, "wip", UNDEF, "o/r", UNDEF)
LocalCommitOnMain == Contribution("commit", T1, "wip", UNDEF, "o/r", "main")

SaveBatches ==
    { <<>>, <<FeatureCommit>>, <<TrunkCommit>>,
      <<FeatureCommit, EarlyCommit>>, <<MainCommit, FeatureCommit>>,
      <<FeatureCommit, EarlyPr, MainCommit>>, <<LocalCommitOnMain, EarlyPr>> }

DedupIdle ==
    /\ dpc = "idle"
    /\ contributions = <<>>
    /\ baseBranches = DefaultBaseBranches
    /\ result = <<>>
    /\ again = <<>>
    /\ permuted = <<>>
    /\ permutedResult = <<>>

\* an entry an earlier run stored for the identity
StoredEntry(platform, username) ==
    CacheEntry(<<>>, platform, username, <<EarlyCommit, FeatureCommit>>, <<Now, Now, Now>>)

----------------------------------------------------------------------------
(* Cache Store: the calls, followed through their awaits *)

\* loadCache, saveCache, clearCache and getCacheStatus are async functions: a
\* call gives up control at each await, and the disk operations of other
\* calls (of this process or of another run of the tool) can take place
\* before it goes on.  calls holds every call made, with the await it stands
\* at (pc) and what it has read and computed so far:
\*   saveCache:  "mkdir" (await of line 280) -> "reading" (readFile of
\*               loadCache, await of line 283) -> "loaded" (writeFile of line
\*               313 called) -> "writing" (writeFile has opened the file with
\*               flag 'w') -> "done"
\*   loadCache:  "reading" -> "done"
\*   clearCache: "readdir" -> "unlinking" -> "done"
\*   getCacheStatus: "readdir" -> "stat" -> "read" -> "stat" ... -> "done"
\* saves logs the saveCache calls that were fulfilled, in the order they
\* returned.  directory tells what stands at the path of the cache
\* directory: nothing ("absent"), the directory ("directory"), a directory
\* whose files the process may use but not list ("unlistable"), or a file
\* ("file"); files holds the files of the directory.

\* what may stand at the path of the cache directory when the files are fs:
\* a directory when it holds a file, any of `states` otherwise
CacheDirectories(fs, states) ==
    IF \E path \in DOMAIN fs : fs[path].exists
    THEN states \cap {"directory", "unlistable"}
    ELSE states

\* a promise that has not settled
Pending == [status |-> "pending", value |-> <<>>]

\* every call made so far has returned and has no disk operation under way
Quiet == \A i \in DOMAIN calls : calls[i].pc = "done"

\* the number of calls of the operation made so far
Made(op) == Cardinality({ i \in DOMAIN calls : calls[i].op = op })

\* the save calls that have opened their cache file for writing so far
Opened(cs) == { i \in DOMAIN cs : cs[i].op = "save" /\ cs[i].truncated }

\* a loadCache or saveCache call that was just made
NewCall(op, platform, username, newContributions) ==
    [op |-> op,
     pc |-> IF op = "save" THEN "mkdir" ELSE "reading",
     platform |-> platform,
     username |-> username,
     newContributions |-> newContributions,
     mkdir |-> "pending",
     read |-> "pending",
     write |-> "pending",
     truncated |-> FALSE,
     unlinked |-> FALSE,
     opened |-> {},
     observed |-> NoFile,
     existingContributions |-> <<>>,
     cacheEntry |-> NoFile,
     promise |-> Pending,
     stored |-> NoFile]

\* a clearCache or getCacheStatus call that was just made
NewDirectoryCall(op) ==
    [op |-> op,
     pc |-> "readdir",
     saved |-> Len(saves),
     before |-> <<>>,
     listed |-> {},
     pending |-> {},
     order |-> <<>>,
     entries |-> <<>>,
     promise |-> Pending,
     after |-> <<>>]

\* saveCache(platform, username, newContributions) is called: it calls
\* ensureCacheDirectory, which calls fs.mkdir, and waits (line 280)
StartSave(limit, identities, batches) ==
    /\ Made("save") < limit
    /\ \E who \in identities, newContributions \in batches :
         calls' = Append(calls, NewCall("save", who[1], who[2], newContributions))
    /\ UNCHANGED <<directory, files, saves, dedupVars, reportVars, githubVars, gitlabVars>>

\* loadCache(platform, username) is called: it calls fs.readFile and waits
\* (line 256)
StartLoad(limit, identities) ==
    /\ Made("load") < limit
    /\ \E who \in identities :
         calls' = Append(calls, NewCall("load", who[1], who[2], <<>>))
    /\ UNCHANGED <<directory, files, saves, dedupVars, reportVars, githubVars, gitlabVars>>

\* fs.mkdir(directoryPath, {recursive: true}) settles and
\* ensureCacheDirectory with it: with a file in the way of the directory
\* mkdir fails with EEXIST, which ensureCacheDirectory swallows; otherwise it
\* makes the directory, when there is none, or fails with another code.  On
\* an error other than EEXIST saveCache is rejected with it, otherwise
\* saveCache calls loadCache, which calls fs.readFile and waits (line 283).
SaveMakesDirectory(outcomes) ==
    /\ \E i \in DOMAIN calls :
         /\ calls[i].op = "save" /\ calls[i].pc = "mkdir"
         /\ \E mkdir \in (IF directory = "file" THEN {"EEXIST"} ELSE outcomes) :
              /\ directory' = IF mkdir = "ok" /\ directory = "absent" THEN "directory"
                               ELSE directory
              /\ LET call == calls[i]
                     filePath == getCacheFilePath(call.platform, call.username)
                 IN  calls' = [calls EXCEPT ![i] =
                          IF ensureCacheDirectory(mkdir).status = "rejected"
                          THEN [call EXCEPT !.pc = "done",
                                            !.mkdir = mkdir,
                                            !.promise = ensureCacheDirectory(mkdir),
                                            !.stored = FileAt(files, filePath)]
                          ELSE [call EXCEPT !.pc = "reading", !.mkdir = mkdir]]
    /\ UNCHANGED <<files, saves, dedupVars, reportVars, githubVars, gitlabVars>>

\* how fs.readFile(path, 'utf-8') may end: with ENOTDIR when a file stands
\* at the path of the cache directory, with ENOENT on a path that names no
\* file, with EACCES on a file the process may not read, and on a file it
\* may read with the text ("ok") or one of the other outcomes given
ReadFile(fs, path, outcomes) ==
    IF directory = "file" THEN {"ENOTDIR"}
    ELSE IF ~FileAt(fs, path).exists THEN {"ENOENT"}
    ELSE IF ~FileAt(fs, path).readable THEN {"EACCES"}
    ELSE outcomes

\* the files as a readFile of path that ends in `read` finds them: the file
\* gives no text to a read that fails (with ENOENT and ENOTDIR there is no
\* file at the path)
AsRead(fs, path, read) ==
    IF read \in {"ok", "ENOENT", "ENOTDIR"} THEN fs
    ELSE [fs EXCEPT ![path] = [fs[path] EXCEPT !.readable = FALSE]]

\* the readFile of loadCache settles on what the file holds now (or fails,
\* in one of the ways of `reads`), loadCache returns, and saveCache runs
\* lines 286-313: it computes the entry, reading the clock three times,
\* calls fs.writeFile and waits
SaveLoads(reads) ==
    /\ \E i \in DOMAIN calls :
         /\ calls[i].op = "save" /\ calls[i].pc = "reading"
         /\ \E now \in ClockReadings,
               read \in ReadFile(files, getCacheFilePath(calls[i].platform, calls[i].username), reads) :
              LET call == calls[i]
                  filePath == getCacheFilePath(call.platform, call.username)
                  existingContributions ==
                      loadCache(AsRead(files, filePath, read), call.platform, call.username).value
              IN  calls' = [calls EXCEPT ![i] =
                              [call EXCEPT !.pc = "loaded",
                                           !.read = read,
                                           !.opened = Opened(calls),
                                           !.observed = FileAt(files, filePath),
                                           !.existingContributions = existingContributions,
                                           !.cacheEntry = CacheEntry(existingContributions, call.platform,
                                                                     call.username, call.newContributions, now)]]
    /\ UNCHANGED <<directory, files, saves, dedupVars, reportVars, githubVars, gitlabVars>>

\* the file a call has opened with flag 'w': a new file, which the process
\* may read, or the file that was there, emptied, with the permissions it had
OpenedFile(file) ==
    IF file.exists THEN DamagedFile(file.readable, "empty") ELSE TruncatedFile

\* fs.writeFile(filePath, content, 'utf-8'), first half: the file is opened
\* with flag 'w', which creates it or empties it.  When the open fails the
\* file is left as it is and saveCache is rejected with the error; with a
\* file in the way of the directory the open can only fail.
SaveOpens(outcomes) ==
    /\ \E i \in DOMAIN calls :
         /\ calls[i].op = "save" /\ calls[i].pc = "loaded"
         /\ \E open \in (IF directory = "file" THEN {"ENOTDIR"} ELSE outcomes) :
              LET call == calls[i]
                  filePath == getCacheFilePath(call.platform, call.username)
              IN  IF open = "ok"
                  THEN /\ files' = WriteFile(files, filePath, OpenedFile(FileAt(files, filePath)))
                       /\ calls' = [calls EXCEPT ![i] =
                                       [call EXCEPT !.pc = "writing", !.truncated = TRUE]]
                  ELSE /\ files' = files
                       /\ calls' = [calls EXCEPT ![i] =
                                       [call EXCEPT !.pc = "done",
                                                    !.write = open,
                                                    !.promise = AwaitWriteFile(open),
                                                    !.stored = FileAt(files, filePath)]]
    /\ UNCHANGED <<directory, saves, dedupVars, reportVars, githubVars, gitlabVars>>

\* the text of the entry in a file with the permissions of `file`
TextIn(file, cacheEntry) == [cacheEntry EXCEPT !.readable = file.readable]

\* what the file holds once a call has written its text from offset 0: the
\* text, when the file was empty or held that very text; when another call
\* wrote a text since this call opened the file, this text followed by what
\* the other has beyond its length: the entry when that is nothing, a text
\* JSON.parse throws on otherwise.  The permissions of the file stay.
Overwritten(file, cacheEntry) ==
    IF file.json = "empty" \/ file = TextIn(file, cacheEntry)
    THEN {TextIn(file, cacheEntry)}
    ELSE {TextIn(file, cacheEntry), DamagedFile(file.readable, "invalid")}

\* what the file holds once a write to it has failed: what it held, or a
\* part of the text
CutShort(file) == {file, DamagedFile(file.readable, "invalid")}

\* fs.writeFile, second half: the text is written and saveCache returns, or
\* the write fails and saveCache is rejected with the error.  The write goes
\* to the file the call has opened: when that file was unlinked since, the
\* path is left as it is, be it empty or at a file made since.
SaveWrites(outcomes) ==
    /\ \E i \in DOMAIN calls :
         /\ calls[i].op = "save" /\ calls[i].pc = "writing"
         /\ \E write \in outcomes :
              LET call == calls[i]
                  filePath == getCacheFilePath(call.platform, call.username)
                  file == FileAt(files, filePath)
              IN  \E content \in (IF call.unlinked THEN {file}
                                   ELSE IF write = "ok" THEN Overwritten(file, call.cacheEntry)
                                   ELSE CutShort(file)) :
                     /\ files' = IF call.unlinked THEN files
                                 ELSE WriteFile(files, filePath, content)
                     /\ calls' = [calls EXCEPT ![i] =
                                     [call EXCEPT !.pc = "done",
                                                  !.write = write,
                                                  !.promise = AwaitWriteFile(write),
                                                  !.stored = content]]
                     /\ saves' = IF AwaitWriteFile(write).status = "fulfilled"
                                 THEN Append(saves, [filePath |-> filePath,
                                                     platform |-> call.platform,
                                                     username |-> call.username,
                                                     before |-> call.existingContributions,
                                                     newContributions |-> call.newContributions,
                                                     after |-> call.cacheEntry.contributions])
                                 ELSE saves
    /\ UNCHANGED <<directory, dedupVars, reportVars, githubVars, gitlabVars>>

\* loadCache: readFile settles on what the file holds now (or fails, in one
\* of the ways of `reads`) and loadCache returns
LoadReads(reads) ==
    /\ \E i \in DOMAIN calls :
         /\ calls[i].op = "load" /\ calls[i].pc = "reading"
         /\ \E read \in ReadFile(files, getCacheFilePath(calls[i].platform, calls[i].username), reads) :
              LET call == calls[i]
                  filePath == getCacheFilePath(call.platform, call.username)
              IN  calls' = [calls EXCEPT ![i] =
                              [call EXCEPT !.pc = "done",
                                           !.read = read,
                                           !.opened = Opened(calls),
                                           !.observed = FileAt(files, filePath),
                                           !.promise = loadCache(AsRead(files, filePath, read),
                                                                 call.platform, call.username),
                                           !.stored = FileAt(files, filePath)]]
    /\ UNCHANGED <<directory, files, saves, dedupVars, reportVars, githubVars, gitlabVars>>

\* a file in the cache directory that is no cache file
ForeignFile == getCacheDirectoryPath \o "/" \o ".DS_Store"

\* file.endsWith('.json') on the file names of the model
EndsWithJson(file) ==
    CASE file = ForeignFile -> FALSE
      [] OTHER -> TRUE

\* the listing with the filter left out
JsonFilesUnfiltered(fs) == { file \in DOMAIN fs : fs[file].exists }

\* the listing of fs.readdir(directoryPath) filtered to *.json
JsonFiles(fs) == { file \in DOMAIN fs : fs[file].exists /\ EndsWithJson(file) }

\* fs.unlink on each of the files
Unlink(fs, removed) == [file \in DOMAIN fs \ removed |-> fs[file]]

\* clearCache() is called: it calls fs.readdir and waits (line 355)
StartClear(limit) ==
    /\ Made("clear") < limit
    /\ calls' = Append(calls, NewDirectoryCall("clear"))
    /\ UNCHANGED <<directory, files, saves, dedupVars, reportVars, githubVars, gitlabVars>>

\* how fs.readdir(directoryPath) ends: with ENOENT without a directory, with
\* ENOTDIR with a file in its place, with EACCES on a directory the process
\* may not list
Readdir ==
    CASE directory = "absent" -> "ENOENT"
      [] directory = "file" -> "ENOTDIR"
      [] directory = "unlistable" -> "EACCES"
      [] OTHER -> "ok"

\* readdir settles: clearCache calls fs.unlink on every *.json file at once
\* and waits for all of them (line 358); with no such file it returns 0.
\* When readdir fails clearCache returns 0 on ENOENT and is rejected with any
\* other error (lines 361-367)
ClearListsDirectory ==
    /\ \E i \in DOMAIN calls :
         /\ calls[i].op = "clear" /\ calls[i].pc = "readdir"
         /\ LET call == calls[i]
                readdir == Readdir
                jsonFiles == JsonFiles(files)
            IN  calls' = [calls EXCEPT ![i] =
                              IF readdir # "ok"
                              THEN [call EXCEPT !.pc = "done",
                                                !.before = files,
                                                !.promise = IF readdir = "ENOENT" THEN Fulfilled(0)
                                                            ELSE Thrown(readdir),
                                                !.after = files]
                              ELSE IF jsonFiles = {}
                              THEN [call EXCEPT !.pc = "done",
                                                !.before = files,
                                                !.promise = Fulfilled(0),
                                                !.after = files]
                              ELSE [call EXCEPT !.pc = "unlinking",
                                                !.before = files,
                                                !.listed = jsonFiles,
                                                !.pending = jsonFiles]]
    /\ UNCHANGED <<directory, files, saves, dedupVars, reportVars, githubVars, gitlabVars>>

\* what clearCache returns once an unlink has settled: the first unlink to
\* fail settles the Promise.all and with it clearCache, which returns 0 on
\* ENOENT and is rejected with any other error; the unlinks still under way
\* go on.  When the last one has succeeded clearCache returns the number of
\* files it listed.
clearCacheSettles(call, unlink, left) ==
    IF call.promise.status # "pending" THEN call.promise
    ELSE IF unlink = "ENOENT" THEN Fulfilled(0)
    ELSE IF unlink # "ok" THEN Thrown(unlink)
    ELSE IF left = {} THEN Fulfilled(Cardinality(call.listed))
    ELSE Pending

\* the calls once the file at the path was unlinked: a save that has it open
\* for writing holds a file that has no name any more
Unlinked(cs, path) ==
    [c \in DOMAIN cs |->
        IF /\ cs[c].op = "save"
           /\ cs[c].pc = "writing"
           /\ getCacheFilePath(cs[c].platform, cs[c].username) = path
        THEN [cs[c] EXCEPT !.unlinked = TRUE]
        ELSE cs[c]]

\* one of the unlinks settles: the file is gone, or the unlink failed because
\* the file was gone already (ENOENT) or for another reason
ClearUnlinks(outcomes) ==
    /\ \E i \in DOMAIN calls :
         /\ calls[i].op = "clear" /\ calls[i].pc = "unlinking"
         /\ \E file \in calls[i].pending :
              \E unlink \in (IF FileAt(files, file).exists THEN outcomes ELSE {"ENOENT"}) :
                 LET call == calls[i]
                     left == call.pending \ {file}
                     removed == IF unlink = "ok" THEN Unlink(files, {file}) ELSE files
                     holders == IF unlink = "ok" THEN Unlinked(calls, file) ELSE calls
                 IN  /\ files' = removed
                     /\ calls' = [holders EXCEPT ![i] =
                                     [call EXCEPT !.pc = IF left = {} THEN "done" ELSE "unlinking",
                                                  !.pending = left,
                                                  !.promise = clearCacheSettles(call, unlink, left),
                                                  !.after = removed]]
    /\ UNCHANGED <<directory, saves, dedupVars, reportVars, githubVars, gitlabVars>>

\* getCacheStatus once the loop is through: the metadata of the *.json files
\* that could be read and parsed (the byte sizes of the files are not
\* modelled)
getCacheStatusReturns(entries) ==
    Fulfilled([exists |-> Len(entries) > 0, entries |-> entries])

\* the outer catch of getCacheStatus (lines 403-408): the status of a missing
\* cache on ENOENT, the error thrown again otherwise
getCacheStatusCatches(error) ==
    IF error = "ENOENT" THEN Fulfilled([exists |-> FALSE, entries |-> <<>>])
    ELSE Thrown(error)

\* getCacheStatus() is called: it calls fs.readdir and waits (line 377)
StartStatus(limit) ==
    /\ Made("status") < limit
    /\ calls' = Append(calls, NewDirectoryCall("status"))
    /\ UNCHANGED <<directory, files, saves, dedupVars, reportVars, githubVars, gitlabVars>>

\* the orders in which fs.readdir may give the files (the order is that of
\* the directory on the disk, which the program does not choose)
Listings(listed) ==
    { order \in [1..Cardinality(listed) -> listed] :
        \A m, n \in 1..Cardinality(listed) : m # n => order[m] # order[n] }

\* readdir settles: getCacheStatus enters the loop over the *.json files in
\* the order readdir gave them, calls fs.stat on the first and waits (line
\* 385); with no such file it returns.  A readdir that fails ends in the
\* outer catch
StatusListsDirectory ==
    /\ \E i \in DOMAIN calls :
         /\ calls[i].op = "status" /\ calls[i].pc = "readdir"
         /\ \E order \in Listings(JsonFiles(files)) :
            LET call == calls[i]
                readdir == Readdir
                jsonFiles == JsonFiles(files)
            IN  calls' = [calls EXCEPT ![i] =
                              IF readdir # "ok"
                              THEN [call EXCEPT !.pc = "done",
                                                !.before = files,
                                                !.promise = getCacheStatusCatches(readdir),
                                                !.after = files]
                              ELSE IF jsonFiles = {}
                              THEN [call EXCEPT !.pc = "done",
                                                !.before = files,
                                                !.promise = getCacheStatusReturns(<<>>),
                                                !.after = files]
                              ELSE [call EXCEPT !.pc = "stat",
                                                !.before = files,
                                                !.listed = jsonFiles,
                                                !.pending = jsonFiles,
                                                !.order = order]]
    /\ UNCHANGED <<directory, files, saves, dedupVars, reportVars, githubVars, gitlabVars>>

\* the file the loop of getCacheStatus stands at: `for (const file of
\* jsonFiles)` takes the files in the order readdir gave them
CurrentFile(call) == Head(call.order)

\* how fs.stat(filePath) may end: with ENOENT on a file that is gone since
\* the listing, otherwise with the size of the file ("ok") or one of the
\* other outcomes given
Stat(fs, path, outcomes) ==
    IF ~FileAt(fs, path).exists THEN {"ENOENT"} ELSE outcomes

\* fs.stat settles: when it fails, the error ends in the outer catch, which
\* turns ENOENT into the status of a missing cache and throws every other
\* error again; otherwise getCacheStatus calls fs.readFile and waits (line
\* 389)
StatusStats(outcomes) ==
    /\ \E i \in DOMAIN calls :
         /\ calls[i].op = "status" /\ calls[i].pc = "stat"
         /\ \E stat \in Stat(files, CurrentFile(calls[i]), outcomes) :
              LET call == calls[i]
              IN  calls' = [calls EXCEPT ![i] =
                              IF stat = "ok"
                              THEN [call EXCEPT !.pc = "read"]
                              ELSE [call EXCEPT !.pc = "done",
                                                !.promise = getCacheStatusCatches(stat),
                                                !.after = files]]
    /\ UNCHANGED <<directory, files, saves, dedupVars, reportVars, githubVars, gitlabVars>>

\* fs.readFile settles: the metadata of a text that parses to an object are
\* pushed to entries; a file that is gone, cannot be read (in one of the ways
\* of `reads`) or does not parse to an object is skipped; the loop goes on to
\* the next file or getCacheStatus returns
StatusReads(reads) ==
    /\ \E i \in DOMAIN calls :
         /\ calls[i].op = "status" /\ calls[i].pc = "read"
         /\ \E read \in ReadFile(files, CurrentFile(calls[i]), reads) :
              LET call == calls[i]
                  file == CurrentFile(call)
                  content == FileAt(files, file)
                  left == Tail(call.order)
                  entries == IF read = "ok" /\ content.json \in {"entry", "{}"}
                             THEN Append(call.entries, content.metadata)
                             ELSE call.entries
              IN  calls' = [calls EXCEPT ![i] =
                              IF left = <<>>
                              THEN [call EXCEPT !.pc = "done",
                                                !.pending = {},
                                                !.order = left,
                                                !.entries = entries,
                                                !.promise = getCacheStatusReturns(entries),
                                                !.after = files]
                              ELSE [call EXCEPT !.pc = "stat",
                                                !.pending = SeqToSet(left),
                                                !.order = left,
                                                !.entries = entries]]
    /\ UNCHANGED <<directory, files, saves, dedupVars, reportVars, githubVars, gitlabVars>>

----------------------------------------------------------------------------
(* Cache Store: saves of one identity made one after another *)

\* fs.mkdir without a file in the way: it succeeds (also when the directory
\* exists) or fails
MkdirOutcomes == {"ok", "EACCES"}

\* the open of fs.writeFile: it succeeds, or fails and leaves the file alone
OpenOutcomes == {"ok", "EACCES"}

\* the write of fs.writeFile: it succeeds, or fails part of the way
WriteOutcomes == {"ok", "ENOSPC"}

\* the identity whose cache is saved
SavedUsername == "alice"

\* what the cache file of the identity holds before the first save: nothing,
\* the entry of an earlier run, or a file the process may write but not read
SavedFiles(platform, username) ==
    { NoFile, StoredEntry(platform, username), DamagedFile(FALSE, "invalid") }

CacheBatches == { <<TrunkCommit>>, <<FeatureCommit, EarlyPr>> }

CacheInit ==
    /\ files \in { WriteFile(<<>>, getCacheFilePath(platform, SavedUsername), file) :
                      platform \in Platforms,
                      file \in UNION { SavedFiles(p, SavedUsername) : p \in Platforms } }
    /\ directory \in CacheDirectories(files, {"absent", "directory", "file"})
    /\ saves = <<>>
    /\ calls = <<>>
    /\ DedupIdle
    /\ ReportIdle
    /\ GitHubIdle
    /\ GitLabIdle

\* the caller awaits each saveCache call before it makes the next one (a
\* call is made when the calls before are through); mkdir, the read, the
\* open and the write of a save end in any of their outcomes
CacheNext ==
    \/ Quiet /\ StartSave(MaxSaves, Platforms \X {SavedUsername}, CacheBatches)
    \/ SaveMakesDirectory(MkdirOutcomes)
    \/ SaveLoads(ReadOutcomes)
    \/ SaveOpens(OpenOutcomes)
    \/ SaveWrites(WriteOutcomes)

SpecCache == CacheInit /\ [][CacheNext]_vars

----------------------------------------------------------------------------
(* Cache Store on a disk that may fail *)

\* what the cache file of an identity may hold when a call starts
InitialFiles(platform, username) ==
    { NoFile, StoredEntry(platform, username),
      DamagedFile(TRUE, "invalid"), DamagedFile(TRUE, "null"), DamagedFile(TRUE, "{}"),
      DamagedFile(FALSE, "invalid") }

FaultBatches == { <<MainCommit>>, <<EarlyPr, EarlyCommit>> }

CacheFaultsInit ==
    /\ files \in { WriteFile(<<>>, getCacheFilePath(platform, SavedUsername), file) :
                      platform \in Platforms,
                      file \in UNION { InitialFiles(p, SavedUsername) : p \in Platforms } }
    /\ directory \in CacheDirectories(files, {"absent", "directory", "file"})
    /\ saves = <<>>
    /\ calls = <<>>
    /\ DedupIdle
    /\ ReportIdle
    /\ GitHubIdle
    /\ GitLabIdle

\* the caller awaits each call before it makes the next one; mkdir, the
\* reads, the open and the write end in any of their outcomes
CacheFaultsNext ==
    \/ Quiet /\ Len(calls) < MaxCalls /\ StartLoad(MaxCalls, Platforms \X {SavedUsername})
    \/ LoadReads(ReadOutcomes)
    \/ Quiet /\ Len(calls) < MaxCalls
          /\ StartSave(MaxCalls, Platforms \X {SavedUsername}, FaultBatches)
    \/ SaveMakesDirectory(MkdirOutcomes)
    \/ SaveLoads(ReadOutcomes)
    \/ SaveOpens(OpenOutcomes)
    \/ SaveWrites(WriteOutcomes)

SpecCacheFaults == CacheFaultsInit /\ [][CacheFaultsNext]_vars

----------------------------------------------------------------------------
(* Cache Store: saves over an entry found on the disk *)

\* an entry on the disk whose contributions are not in ascending order (the
\* file is plain JSON in the user's home directory)
UnsortedEntry(platform, username) ==
    [StoredEntry(platform, username) EXCEPT !.contributions = <<FeatureCommit, EarlyCommit>>]

\* the file of alice is absent, or holds an entry in or out of order
StoredCacheInit ==
    /\ files \in { <<>> }
          \cup { WriteFile(<<>>, getCacheFilePath(platform, "alice"), entry) :
                    platform \in Platforms,
                    entry \in UNION { { StoredEntry(p, "alice"), UnsortedEntry(p, "alice") } :
                                        p \in Platforms } }
    /\ directory \in CacheDirectories(files, {"absent", "directory"})
    /\ saves = <<>>
    /\ calls = <<>>
    /\ DedupIdle
    /\ ReportIdle
    /\ GitHubIdle
    /\ GitLabIdle

\* the caller awaits each saveCache call before it makes the next one; the
\* clock is read as it is, whatever it shows
StoredCacheNext ==
    \/ Quiet /\ StartSave(MaxCalls, Platforms \X {"alice"}, SaveBatches)
    \/ SaveMakesDirectory({"ok"})
    \/ SaveLoads({"ok"})
    \/ SaveOpens({"ok"})
    \/ SaveWrites({"ok"})

SpecStoredCache == StoredCacheInit /\ [][StoredCacheNext]_vars

----------------------------------------------------------------------------
(* Cache Store: file names *)

\* the usernames whose cache file is asked for
PathUsernames ==
    {"alice", "Alice", "octo.cat", "octo@cat", "octo_cat", "octo-cat", "octo cat",
     "user@example.com", "a/b", "a_b", "..", "__"}

PathPlatforms == {"github", "gitlab"}

CachePathsInit ==
    /\ files = <<>>
    /\ directory \in {"absent"}
    /\ saves = <<>>
    /\ calls = <<>>
    /\ DedupIdle
    /\ ReportIdle
    /\ GitHubIdle
    /\ GitLabIdle

\* getCacheFilePath(platform, username), as loadCache and saveCache call it
CacheFilePathCall ==
    /\ Len(calls) < MaxCalls
    /\ \E platform \in PathPlatforms, username \in PathUsernames :
         calls' = Append(calls, [op |-> "path",
                                 platform |-> platform,
                                 username |-> username,
                                 filePath |-> getCacheFilePath(platform, username)])
    /\ UNCHANGED <<directory, files, saves, dedupVars, reportVars, githubVars, gitlabVars>>

CachePathsNext == CacheFilePathCall

SpecCachePaths == CachePathsInit /\ [][CachePathsNext]_vars

----------------------------------------------------------------------------
(* Cache Store: clearCache and getCacheStatus *)

\* the identities saved: two of them share a cache file, the third has the
\* username of the first on another platform
ClearIdentities == { <<"github", "octo.cat">>, <<"github", "octo@cat">>, <<"gitlab", "octo.cat">> }

\* fs.unlink: it succeeds or fails
UnlinkOutcomes == {"ok", "EACCES"}

\* fs.stat on a file that is there: it succeeds or fails
StatOutcomes == {"ok", "EACCES"}

\* the cache directory holds no cache file yet
CacheClearInit ==
    /\ files \in { <<>>, WriteFile(<<>>, ForeignFile, DamagedFile(TRUE, "invalid")) }
    /\ directory \in CacheDirectories(files, {"absent", "directory", "unlistable", "file"})
    /\ saves = <<>>
    /\ calls = <<>>
    /\ DedupIdle
    /\ ReportIdle
    /\ GitHubIdle
    /\ GitLabIdle

\* the call made last is a clearCache
Cleared == Len(calls) > 0 /\ calls[Len(calls)].op = "clear"

\* the caller awaits each call before it makes the next one, and makes a
\* call after a clearCache that failed when the unlinks of that call are
\* through; it saves each identity at most once and asks for the status
\* after a clearCache; at most MaxCalls calls are clearCache or getCacheStatus
CacheClearNext ==
    \/ Quiet /\ StartSave(Cardinality(ClearIdentities),
                          { who \in ClearIdentities :
                               \A k \in DOMAIN calls :
                                  calls[k].op = "save" =>
                                     <<calls[k].platform, calls[k].username>> # who },
                          { <<MainCommit>> })
    \/ SaveMakesDirectory({"ok"})
    \/ SaveLoads({"ok"})
    \/ SaveOpens({"ok"})
    \/ SaveWrites({"ok"})
    \/ Quiet /\ Made("clear") + Made("status") < MaxCalls /\ StartClear(MaxCalls)
    \/ ClearListsDirectory
    \/ ClearUnlinks(UnlinkOutcomes)
    \/ Quiet /\ Cleared /\ Made("clear") + Made("status") < MaxCalls /\ StartStatus(MaxCalls)
    \/ StatusListsDirectory
    \/ StatusStats(StatOutcomes)
    \/ StatusReads(ReadOutcomes)

SpecCacheClear == CacheClearInit /\ [][CacheClearNext]_vars

----------------------------------------------------------------------------
(* Cache Store: calls that overlap on one cache file *)

ConcurrentUsername == "alice"

ConcurrentBatches == { <<MainCommit>>, <<EarlyPr>> }

\* the cache file of the identity is absent or holds the entry of an earlier run
ConcurrentInit ==
    /\ files \in { <<>> }
          \cup { WriteFile(<<>>, getCacheFilePath(platform, ConcurrentUsername),
                           StoredEntry(platform, ConcurrentUsername)) : platform \in Platforms }
    /\ directory \in CacheDirectories(files, {"absent", "directory"})
    /\ saves = <<>>
    /\ calls = <<>>
    /\ DedupIdle
    /\ ReportIdle
    /\ GitHubIdle
    /\ GitLabIdle

\* a call is made whatever the calls made before are doing
ConcurrentNext ==
    \/ Len(calls) < MaxCalls
          /\ StartSave(MaxCalls, Platforms \X {ConcurrentUsername}, ConcurrentBatches)
    \/ Len(calls) < MaxCalls /\ StartLoad(MaxCalls, Platforms \X {ConcurrentUsername})
    \/ SaveMakesDirectory({"ok"})
    \/ SaveLoads({"ok"})
    \/ SaveOpens({"ok"})
    \/ SaveWrites({"ok"})
    \/ LoadReads({"ok"})

SpecConcurrentCache == ConcurrentInit /\ [][ConcurrentNext]_vars

----------------------------------------------------------------------------
(* Cache Store: a clearCache that overlaps saves of one cache file *)

\* the calls that may overlap
MaxOverlap == 3

OverlapBatches == { <<MainCommit>>, <<EarlyPr>> }

\* saveCache and clearCache are called whatever the calls made before are
\* doing
ClearedWhileSavingNext ==
    \/ Len(calls) < MaxOverlap
          /\ StartSave(MaxOverlap, Platforms \X {ConcurrentUsername}, OverlapBatches)
    \/ Len(calls) < MaxOverlap /\ StartClear(MaxOverlap)
    \/ SaveMakesDirectory({"ok"})
    \/ SaveLoads({"ok"})
    \/ SaveOpens({"ok"})
    \/ SaveWrites({"ok"})
    \/ ClearListsDirectory
    \/ ClearUnlinks({"ok"})

SpecClearedWhileSaving == ConcurrentInit /\ [][ClearedWhileSavingNext]_vars

----------------------------------------------------------------------------
(* Report Generator (src/lib/services/reportGenerator.ts, 1-184) *)

\* the "Collect successful results" loop: the values of the fulfilled
\* results, in connector order
CollectFulfilled(results) ==
    Flat([i \in DOMAIN results |->
            IF results[i].status = "fulfilled" THEN results[i].value ELSE <<>>])

\* awaiting the connectors with Promise.all: one rejection rejects the whole
fetchAndMergeContributionsAll(results) ==
    IF \E i \in DOMAIN results : results[i].status = "rejected"
    THEN [status |-> "rejected", value |-> <<>>]
    ELSE [status |-> "fulfilled",
          value |-> SortDescending(deduplicateContributions(CollectFulfilled(results)))]

\* merging without the final sort
fetchAndMergeContributionsUnsorted(results) ==
    [status |-> "fulfilled", value |-> deduplicateContributions(CollectFulfilled(results))]

\* fetchAndMergeContributions once Promise.allSettled has every outcome
fetchAndMergeContributions(results) ==
    LET allContributions == CollectFulfilled(results)
        uniqueContributions == deduplicateContributions(allContributions)
    IN  [status |-> "fulfilled", value |-> SortDescending(uniqueContributions)]

\* repositoryProjectIds[repository] of a plain object: undefined for a missing key
Lookup(mapping, key) == IF key \in DOMAIN mapping THEN mapping[key] ELSE UNDEF

\* enrichment that attaches a configured projectId whatever the repository
enrichContributionsWithAnyProjectId(cs, mapping) ==
    [i \in DOMAIN cs |->
        IF Truthy(cs[i].repository) /\ DOMAIN mapping # {}
        THEN [cs[i] EXCEPT !.projectId = mapping[CHOOSE k \in DOMAIN mapping : TRUE]]
        ELSE cs[i]]

enrichContributionsWithProjectIds(cs, mapping) ==
    [i \in DOMAIN cs |->
        IF Truthy(cs[i].repository) /\ Truthy(Lookup(mapping, cs[i].repository))
        THEN [cs[i] EXCEPT !.projectId = Lookup(mapping, cs[i].repository)]
        ELSE cs[i]]

\* the connector callback of generateCommitsReport returning the commits only
ConnectorCommitsOnly(commits, regularContributions) == commits

\* [...commits, ...regularContributions]
ConnectorCommitsAndContributions(commits, regularContributions) ==
    commits \o regularContributions

\* generateCommitsReport once Promise.allSettled has every outcome
generateCommitsReport(results, mapping) ==
    LET allContributions == CollectFulfilled(results)
        uniqueContributions == deduplicateContributions(allContributions)
        sortedContributions == SortDescending(uniqueContributions)
    IN  enrichContributionsWithProjectIds(sortedContributions, mapping)

(* Inputs of the Report Generator *)

OtherRepoCommit ==
    Contribution("commit", T3, "docs", "https://github.com/o/other/commit/c3", "o/other", "main")

\* what one connector's fetchContributions may resolve to
FetchedLists ==
    { <<>>, <<FeatureCommit>>, <<MainCommit, EarlyCommit>>, <<EarlyCommit, OtherRepoCommit>>,
      <<EarlyPr, EarlyCommit, TrunkCommit>>, <<LocalCommit, OtherRepoCommit, EarlyPr>> }

\* Configuration.repositoryProjectIds: none, one mapping, one mapping whose
\* projectId is the empty string
ProjectIdMappings ==
    { <<>>, [r \in {"o/r"} |-> "PROJECT-123"], [r \in {"o/r"} |-> ""] }

\* what one connector's fetchAllCommits may resolve to
AllCommitsLists ==
    { <<>>, <<FeatureCommit>>, <<FeatureCommit, EarlyCommit>>, <<OtherRepoCommit, FeatureCommit>> }

ReportInit ==
    /\ rcall \in {"generateReport", "generateCommitsReport"}
    /\ rpc = "fetching"
    /\ settled = [i \in 1..ConnectorCount |-> Pending]
    /\ calledBoth = [i \in 1..ConnectorCount |-> [allCommits |-> Pending, contributions |-> Pending]]
    /\ repositoryProjectIds \in ProjectIdMappings
    /\ report = <<>>
    /\ DedupIdle
    /\ CacheIdle
    /\ GitHubIdle
    /\ GitLabIdle

\* a connector's fetchContributions resolves
ConnectorFulfils ==
    /\ rcall = "generateReport"
    /\ rpc = "fetching"
    /\ \E i \in DOMAIN settled, fetched \in FetchedLists :
         /\ settled[i].status = "pending"
         /\ settled' = [settled EXCEPT ![i] = [status |-> "fulfilled", value |-> fetched]]
    /\ UNCHANGED <<rcall, rpc, calledBoth, repositoryProjectIds, report>>
    /\ UNCHANGED <<dedupVars, cacheVars, githubVars, gitlabVars>>

\* a connector's fetchContributions throws
ConnectorRejects ==
    /\ rcall = "generateReport"
    /\ rpc = "fetching"
    /\ \E i \in DOMAIN settled :
         /\ settled[i].status = "pending"
         /\ settled' = [settled EXCEPT ![i] = [status |-> "rejected", value |-> <<>>]]
    /\ UNCHANGED <<rcall, rpc, calledBoth, repositoryProjectIds, report>>
    /\ UNCHANGED <<dedupVars, cacheVars, githubVars, gitlabVars>>

\* every promise has settled: generateReport merges, enriches and returns
GenerateReportCompletes ==
    /\ rcall = "generateReport"
    /\ rpc = "fetching"
    /\ \A i \in DOMAIN settled : settled[i].status # "pending"
    /\ LET merged == fetchAndMergeContributions(settled)
       IN  IF merged.status = "rejected"
           THEN rpc' = "failed" /\ report' = <<>>
           ELSE /\ rpc' = "returned"
                /\ report' = enrichContributionsWithProjectIds(merged.value, repositoryProjectIds)
    /\ UNCHANGED <<rcall, settled, calledBoth, repositoryProjectIds>>
    /\ UNCHANGED <<dedupVars, cacheVars, githubVars, gitlabVars>>

\* generateCommitsReport: a connector's fetchAllCommits resolves; its
\* fetchContributions is called next
AllCommitsFulfils ==
    /\ rcall = "generateCommitsReport"
    /\ rpc = "fetching"
    /\ \E i \in DOMAIN calledBoth, commits \in AllCommitsLists :
         /\ calledBoth[i].allCommits.status = "pending"
         /\ calledBoth' = [calledBoth EXCEPT ![i].allCommits = Fulfilled(commits)]
    /\ UNCHANGED <<rcall, rpc, settled, repositoryProjectIds, report>>
    /\ UNCHANGED <<dedupVars, cacheVars, githubVars, gitlabVars>>

\* generateCommitsReport: a connector's fetchAllCommits throws; the
\* connector's promise is rejected and fetchContributions is not called
AllCommitsRejects ==
    /\ rcall = "generateCommitsReport"
    /\ rpc = "fetching"
    /\ \E i \in DOMAIN calledBoth :
         /\ calledBoth[i].allCommits.status = "pending"
         /\ calledBoth' = [calledBoth EXCEPT ![i].allCommits = Rejected]
         /\ settled' = [settled EXCEPT ![i] = Rejected]
    /\ UNCHANGED <<rcall, rpc, repositoryProjectIds, report>>
    /\ UNCHANGED <<dedupVars, cacheVars, githubVars, gitlabVars>>

\* generateCommitsReport: a connector's fetchContributions resolves; the
\* connector's promise is fulfilled with both lists
RegularContributionsFulfil ==
    /\ rcall = "generateCommitsReport"
    /\ rpc = "fetching"
    /\ \E i \in DOMAIN calledBoth, regularContributions \in FetchedLists :
         /\ calledBoth[i].allCommits.status = "fulfilled"
         /\ calledBoth[i].contributions.status = "pending"
         /\ calledBoth' = [calledBoth EXCEPT ![i].contributions = Fulfilled(regularContributions)]
         /\ settled' = [settled EXCEPT ![i] =
                            Fulfilled(ConnectorCommitsAndContributions(
                                          calledBoth[i].allCommits.value, regularContributions))]
    /\ UNCHANGED <<rcall, rpc, repositoryProjectIds, report>>
    /\ UNCHANGED <<dedupVars, cacheVars, githubVars, gitlabVars>>

\* generateCommitsReport: a connector's fetchContributions throws; the
\* connector's promise is rejected
RegularContributionsReject ==
    /\ rcall = "generateCommitsReport"
    /\ rpc = "fetching"
    /\ \E i \in DOMAIN calledBoth :
         /\ calledBoth[i].allCommits.status = "fulfilled"
         /\ calledBoth[i].contributions.status = "pending"
         /\ calledBoth' = [calledBoth EXCEPT ![i].contributions = Rejected]
         /\ settled' = [settled EXCEPT ![i] = Rejected]
    /\ UNCHANGED <<rcall, rpc, repositoryProjectIds, report>>
    /\ UNCHANGED <<dedupVars, cacheVars, githubVars, gitlabVars>>

\* every promise has settled: generateCommitsReport merges, sorts, enriches
\* and returns
GenerateCommitsReportCompletes ==
    /\ rcall = "generateCommitsReport"
    /\ rpc = "fetching"
    /\ \A i \in DOMAIN settled : settled[i].status # "pending"
    /\ rpc' = "returned"
    /\ report' = generateCommitsReport(settled, repositoryProjectIds)
    /\ UNCHANGED <<rcall, settled, calledBoth, repositoryProjectIds>>
    /\ UNCHANGED <<dedupVars, cacheVars, githubVars, gitlabVars>>

ReportNext ==
    \/ ConnectorFulfils
    \/ ConnectorRejects
    \/ GenerateReportCompletes
    \/ AllCommitsFulfils
    \/ AllCommitsRejects
    \/ RegularContributionsFulfil
    \/ RegularContributionsReject
    \/ GenerateCommitsReportCompletes

SpecReport == ReportInit /\ [][ReportNext]_vars

----------------------------------------------------------------------------
(* GitHub connector (src/unnamed/part_020): values and pure helpers *)

\* Date.parse of a string that is no date
NaN == -1000000

\* Date.parse on strings outside the timestamp vocabulary yields NaN
ParseOrNaN(s) ==
    IF s \in {T1, T1b, T2, T3, "2025-01-01T00:00:00.000Z", "2025-01-02T23:59:59.999Z",
              "2024-12-31T23:00:00Z"}
    THEN DateParse(s) ELSE NaN

\* a < b and a > b of JavaScript numbers: false when either side is NaN
JsLess(a, b) == a # NaN /\ b # NaN /\ a < b
JsGreater(a, b) == a # NaN /\ b # NaN /\ a > b

\* from.toISOString() and to.toISOString() of the requested window
FromDate == "2025-01-01T00:00:00.000Z"
ToDate == "2025-01-02T23:59:59.999Z"

DateRange == [from |-> FromDate, to |-> ToDate]

\* parseDateRangeTimestamps: it throws when either end of the range is no
\* date; the calls of the connector are made with DateRange, whose ends parse
parseDateRangeTimestamps(dateRange) ==
    LET fromTimestamp == ParseOrNaN(dateRange.from)
        toTimestamp == ParseOrNaN(dateRange.to)
    IN  IF fromTimestamp = NaN \/ toTimestamp = NaN
        THEN Thrown("Invalid date range provided")
        ELSE [fromTimestamp |-> fromTimestamp, toTimestamp |-> toTimestamp]

\* String.prototype.trim on the commit-message vocabulary
Trim(s) ==
    CASE s = " fix " -> "fix"
      [] s = "  " -> ""
      [] OTHER -> s

\* commit.messageHeadline?.trim() || commit.message?.trim() || undefined
CommitText(commit) ==
    IF Truthy(Trim(commit.messageHeadline)) THEN Trim(commit.messageHeadline)
    ELSE IF Truthy(Trim(commit.message)) THEN Trim(commit.message)
    ELSE UNDEF

\* (message || '').split('\n')[0] on the commit-message vocabulary
FirstLine(message) ==
    CASE message = UNDEF -> ""
      [] message = "fix\n\nbody" -> "fix"
      [] OTHER -> message

\* repositoryName.split('/') on the repository vocabulary: <<owner, name>>
SplitRepositoryName(repositoryName) ==
    CASE repositoryName = "o/r" -> <<"o", "r">>
      [] repositoryName = "o/lib" -> <<"o", "lib">>
      [] OTHER -> <<repositoryName, UNDEF>>

\* url.match(/github\.com\/([^/?#]+\/[^/?#]+)/)?.[1] on the url vocabulary
extractRepositoryFromUrl(url) ==
    CASE url = "https://github.com/o/r/pull/1" -> "o/r"
      [] url = "https://github.com/o/r/pull/1#pullrequestreview-5" -> "o/r"
      [] OTHER -> UNDEF

\* the Contribution both commit loops push for a GraphQL commit node
CommitContribution(commit, repositoryName, branchName) ==
    Contribution("commit", commit.committedDate, CommitText(commit), commit.url,
                 repositoryName, branchName)

\* commitTimestamp < fromTimestamp || commitTimestamp > toTimestamp
OutsideRange(commitTimestamp, dateRangeTimestamps) ==
    \/ JsLess(commitTimestamp, dateRangeTimestamps.fromTimestamp)
    \/ JsGreater(commitTimestamp, dateRangeTimestamps.toTimestamp)

\* !authorLogin || authorLogin !== userLogin
NotByUser(commit, userLogin) ==
    ~Truthy(commit.authorLogin) \/ commit.authorLogin # userLogin

\* the first-page loop of extractCommitContributions
FirstPageContributions(commitNodes, repositoryName, branchName, dateRangeTimestamps, userLogin) ==
    (LET kept == SelectSeq(commitNodes,
                LAMBDA commit :
                /\ Truthy(commit.committedDate)
                /\ ParseOrNaN(commit.committedDate) # NaN
                /\ ~OutsideRange(ParseOrNaN(commit.committedDate), dateRangeTimestamps)
                /\ ~NotByUser(commit, userLogin))
         IN  [i \in DOMAIN kept |-> CommitContribution(kept[i], repositoryName, branchName)])

\* the page loop without the author test
PageContributionsAnyAuthor(commitNodes, repositoryName, branch, userLogin) ==
    (LET kept == SelectSeq(commitNodes,
                LAMBDA commit : Truthy(commit.committedDate))
         IN  [i \in DOMAIN kept |-> CommitContribution(kept[i], repositoryName, branch)])

\* the loop over one later page in fetchPaginatedCommits
PageContributions(commitNodes, repositoryName, branch, userLogin) ==
    (LET kept == SelectSeq(commitNodes,
                LAMBDA commit : Truthy(commit.committedDate) /\ ~NotByUser(commit, userLogin))
         IN  [i \in DOMAIN kept |-> CommitContribution(kept[i], repositoryName, branch)])

\* extractCommitContributions keeps of the paginated commits those in range
InRangeOnly(paginatedCommits, dateRangeTimestamps) ==
    SelectSeq(paginatedCommits,
        LAMBDA commit :
            LET commitTimestamp == ParseOrNaN(commit.timestamp)
            IN  /\ commitTimestamp # NaN
                /\ commitTimestamp >= dateRangeTimestamps.fromTimestamp
                /\ commitTimestamp <= dateRangeTimestamps.toTimestamp)

extractPullRequestContributions(pullRequestNodes) ==
    (LET kept == SelectSeq(pullRequestNodes,
                LAMBDA node : node.occurredAt # UNDEF)
         IN  [i \in DOMAIN kept |-> Contribution("pr", kept[i].occurredAt, kept[i].title, kept[i].url,
                  extractRepositoryFromUrl(kept[i].url), kept[i].baseRefName)])

extractReviewContributions(reviewNodes) ==
    (LET kept == SelectSeq(reviewNodes,
                LAMBDA node : node.occurredAt # UNDEF)
         IN  [i \in DOMAIN kept |-> Contribution("review", kept[i].occurredAt, "review", kept[i].url,
                  extractRepositoryFromUrl(kept[i].url), kept[i].baseRefName)])

\* one repository of extractCommitContributions up to its first await: the
\* first page is extracted and, if it signals more, pagination is under way
StartRepository(wrapper, dateRangeTimestamps, userLogin) ==
    IF ~wrapper.hasRepository \/ ~wrapper.hasHistory
    THEN [repositoryName |-> UNDEF, branchName |-> UNDEF, contributions |-> <<>>,
          paging |-> FALSE, cursor |-> UNDEF, paginated |-> <<>>, pages |-> 0]
    ELSE LET repositoryName == wrapper.nameWithOwner
             branchName == wrapper.branchName
             first == FirstPageContributions(wrapper.nodes, repositoryName, branchName,
                                             dateRangeTimestamps, userLogin)
             owner == SplitRepositoryName(repositoryName)[1]
             name == SplitRepositoryName(repositoryName)[2]
             more == /\ wrapper.hasNextPage
                     /\ Truthy(wrapper.endCursor)
                     /\ Truthy(repositoryName)
                     /\ Truthy(branchName)
                     /\ Truthy(owner)
                     /\ Truthy(name)
         IN  [repositoryName |-> IF more THEN owner \o "/" \o name ELSE repositoryName,
              branchName |-> branchName,
              contributions |-> first,
              paging |-> more,
              cursor |-> IF more THEN wrapper.endCursor ELSE UNDEF,
              paginated |-> <<>>,
              pages |-> 0]

\* fetchPaginatedCommits returns: the caller appends the commits in range
FinishPagination(task, dateRangeTimestamps) ==
    [task EXCEPT !.paging = FALSE,
                 !.contributions = task.contributions
                                     \o InRangeOnly(task.paginated, dateRangeTimestamps)]

\* a loop that leaves after the first page it fetched
OnPageOnce(task, response, dateRangeTimestamps, userLogin) ==
    IF response.kind # "page"
    THEN FinishPagination(task, dateRangeTimestamps)
    ELSE FinishPagination(
            [task EXCEPT
                 !.paginated = task.paginated
                     \o PageContributions(response.nodes, task.repositoryName,
                                          task.branchName, userLogin),
                 !.cursor = response.endCursor,
                 !.pages = task.pages + 1],
            dateRangeTimestamps)

\* one turn of the while loop of fetchPaginatedCommits on a page response
OnPage(task, response, dateRangeTimestamps, userLogin) ==
    IF response.kind # "page"
    THEN FinishPagination(task, dateRangeTimestamps)
    ELSE LET collected == [task EXCEPT
                 !.paginated = task.paginated
                     \o PageContributions(response.nodes, task.repositoryName,
                                          task.branchName, userLogin),
                 !.cursor = response.endCursor,
                 !.pages = task.pages + 1]
         IN  IF response.hasNextPage /\ Truthy(response.endCursor)
             THEN collected
             ELSE FinishPagination(collected, dateRangeTimestamps)

\* the variables of the request one turn of the while loop sends (229-239)
PageRequest(task) ==
    [repositoryName |-> task.repositoryName,
     branch |-> "refs/heads/" \o task.branchName,
     cursor |-> task.cursor,
     from |-> DateRange.from,
     to |-> DateRange.to]

\* what a page told: its nodes and its pageInfo (the first page of a
\* repository comes with the aggregate response, its kind is "history")
PageInfo(kind, nodes, hasNextPage, endCursor) ==
    [kind |-> kind, nodes |-> nodes, hasNextPage |-> hasNextPage, endCursor |-> endCursor]

\* the repository of extractCommitContributions together with the record of
\* its pagination: the pages seen and the page requests sent so far
LogFirstPage(task, wrapper) ==
    [repositoryName |-> task.repositoryName,
     branchName |-> task.branchName,
     contributions |-> task.contributions,
     paging |-> task.paging,
     cursor |-> task.cursor,
     paginated |-> task.paginated,
     pages |-> task.pages,
     pageInfos |-> IF wrapper.hasRepository /\ wrapper.hasHistory
                   THEN <<PageInfo("history", wrapper.nodes, wrapper.hasNextPage, wrapper.endCursor)>>
                   ELSE <<>>,
     requests |-> IF task.paging THEN <<PageRequest(task)>> ELSE <<>>]

\* the record after one more turn of the loop: the page that arrived and,
\* if the loop goes on, the request of its next turn
LogPage(after, response) ==
    [after EXCEPT !.pageInfos = Append(@, PageInfo(response.kind, response.nodes,
                                                   response.hasNextPage, response.endCursor)),
                  !.requests = IF after.paging THEN Append(@, PageRequest(after)) ELSE @]

(* GitHub connector: fetchAllCommits helpers *)

\* the Contribution fetchBranchCommits and fetchPullRequestCommits build
RestContribution(commit, repositoryName, target) ==
    Contribution("commit", commit.authorDate, FirstLine(commit.message), commit.html_url,
                 repositoryName, target)

\* fetchBranchCommits with the failure passed on instead of caught
fetchBranchCommitsUncaught(response, branchName, repositoryName) ==
    IF response.kind = "throws" THEN Rejected
    ELSE Fulfilled((LET kept == SelectSeq(response.commits,
                LAMBDA commit : Truthy(commit.authorDate))
         IN  [i \in DOMAIN kept |-> RestContribution(kept[i], repositoryName, branchName)]))

\* fetchBranchCommits on the response of the paginated listCommits call
fetchBranchCommits(response, branchName, repositoryName) ==
    IF response.kind = "throws" THEN Fulfilled(<<>>)
    ELSE Fulfilled((LET kept == SelectSeq(response.commits,
                LAMBDA commit : Truthy(commit.authorDate))
         IN  [i \in DOMAIN kept |-> RestContribution(kept[i], repositoryName, branchName)]))

\* fetchPullRequestCommits keeping a commit only when its author is the user
fetchPullRequestCommitsAuthorOnly(response, pullRequest, userLogin, dateRangeTimestamps, repositoryName) ==
    IF response.kind = "throws" THEN Fulfilled(<<>>)
    ELSE Fulfilled((LET kept == SelectSeq(response.commits,
                LAMBDA commit :
                    /\ Truthy(commit.authorDate)
                    /\ commit.authorLogin = userLogin
                    /\ ~OutsideRange(ParseOrNaN(commit.authorDate), dateRangeTimestamps))
         IN  [i \in DOMAIN kept |-> RestContribution(kept[i], repositoryName, pullRequest.headRef)]))

\* fetchPullRequestCommits on the response of the paginated pulls.listCommits call
fetchPullRequestCommits(response, pullRequest, userLogin, dateRangeTimestamps, repositoryName) ==
    IF response.kind = "throws" THEN Fulfilled(<<>>)
    ELSE Fulfilled((LET kept == SelectSeq(response.commits,
                LAMBDA commit :
                    /\ Truthy(commit.authorDate)
                    /\ ~(commit.authorLogin # userLogin /\ commit.committerLogin # userLogin)
                    /\ ~OutsideRange(ParseOrNaN(commit.authorDate), dateRangeTimestamps))
         IN  [i \in DOMAIN kept |-> RestContribution(kept[i], repositoryName, pullRequest.headRef)]))

filterUserMergedPullRequests(pullRequests, userLogin, dateRangeTimestamps) ==
    SelectSeq(pullRequests,
        LAMBDA pullRequest :
            /\ Truthy(pullRequest.merged_at)
            /\ pullRequest.userLogin = userLogin
            /\ LET mergedTimestamp == ParseOrNaN(pullRequest.merged_at)
               IN  /\ mergedTimestamp # NaN
                   /\ mergedTimestamp >= dateRangeTimestamps.fromTimestamp
                   /\ mergedTimestamp <= dateRangeTimestamps.toTimestamp)

PendingPromise == [status |-> "pending", value |-> <<>>]

AllFulfilled(promises) == \A i \in DOMAIN promises : promises[i].status = "fulfilled"

Values(promises) == Flat([i \in DOMAIN promises |-> promises[i].value])

\* fetchRepositoryCommits leaves through its catch block, or returns, with
\* what repositoryContributions holds
RepositoryDone(task) == [task EXCEPT !.phase = "done"]

\* fetchCommitsFromMergedPullRequests starts: one request per merged PR of the user
StartPullRequests(task, userLogin, dateRangeTimestamps) ==
    LET userMergedPRs == filterUserMergedPullRequests(task.pullsList.value, userLogin,
                                                      dateRangeTimestamps)
    IN  IF userMergedPRs = <<>>
        THEN RepositoryDone(task)
        ELSE [task EXCEPT !.phase = "pulls",
                          !.userMergedPRs = userMergedPRs,
                          !.pullResults = [k \in DOMAIN userMergedPRs |-> PendingPromise]]

\* fetchCommitsFromAllBranches starts: one request per branch
StartBranches(task, userLogin, dateRangeTimestamps) ==
    IF task.branchesList.value = <<>>
    THEN StartPullRequests(task, userLogin, dateRangeTimestamps)
    ELSE [task EXCEPT !.phase = "branches",
                      !.branchResults = [b \in DOMAIN task.branchesList.value |-> PendingPromise]]

\* Promise.all([branchesPromise, pullRequestsPromise]) after one of the two settled
AfterListing(task, userLogin, dateRangeTimestamps) ==
    IF task.branchesList.status = "rejected" \/ task.pullsList.status = "rejected"
    THEN RepositoryDone(task)
    ELSE IF task.branchesList.status = "fulfilled" /\ task.pullsList.status = "fulfilled"
    THEN StartBranches(task, userLogin, dateRangeTimestamps)
    ELSE task

\* Promise.all(branchCommitPromises) after one branch settled
AfterBranch(task, userLogin, dateRangeTimestamps) ==
    IF \E b \in DOMAIN task.branchResults : task.branchResults[b].status = "rejected"
    THEN RepositoryDone(task)
    ELSE IF AllFulfilled(task.branchResults)
    THEN StartPullRequests(
            [task EXCEPT !.contributions = task.contributions \o Values(task.branchResults)],
            userLogin, dateRangeTimestamps)
    ELSE task

\* Promise.all(pullRequestCommitPromises) after one pull request settled
AfterPullRequest(task) ==
    IF \E k \in DOMAIN task.pullResults : task.pullResults[k].status = "rejected"
    THEN RepositoryDone(task)
    ELSE IF AllFulfilled(task.pullResults)
    THEN RepositoryDone(
            [task EXCEPT !.contributions = task.contributions \o Values(task.pullResults)])
    ELSE task

\* fetchAllCommits maps one discovered repository: both listings are requested
StartRepositoryCommits(repositoryName) ==
    LET owner == SplitRepositoryName(repositoryName)[1]
        repo == SplitRepositoryName(repositoryName)[2]
    IN  [repositoryName |-> repositoryName,
         phase |-> IF ~Truthy(owner) \/ ~Truthy(repo) THEN "done" ELSE "listing",
         branchesList |-> PendingPromise,
         pullsList |-> PendingPromise,
         branchResults |-> <<>>,
         userMergedPRs |-> <<>>,
         pullResults |-> <<>>,
         contributions |-> <<>>]

\* discoverRepositories: the names of the repositories of the aggregate response
RepositoryNames(wrappers) ==
    (LET kept == SelectSeq(wrappers,
                LAMBDA wrapper : wrapper.hasRepository /\ Truthy(wrapper.nameWithOwner))
         IN  [i \in DOMAIN kept |-> kept[i].nameWithOwner])

(* Inputs of the GitHub connector: what the upstream may answer *)

UserLogin == "octocat"

CommitNode(repositoryName, oid, committedDate, headline, authorLogin) ==
    [oid |-> oid, committedDate |-> committedDate, messageHeadline |-> headline,
     message |-> headline,
     url |-> "https://github.com/" \o repositoryName \o "/commit/" \o oid,
     authorLogin |-> authorLogin]

\* the first page of default-branch history the aggregate query returns
FirstPageNodes(repositoryName) ==
    << CommitNode(repositoryName, "a1", T1, " fix ", UserLogin),
       CommitNode(repositoryName, "b2", T1, "theirs", "hubot"),
       CommitNode(repositoryName, "c3", T2, "unlinked", UNDEF) >>

\* the node lists a later page may hold
LaterPageNodes(repositoryName) ==
    { <<>>,
      << CommitNode(repositoryName, "d4", T2, "add", UserLogin),
         CommitNode(repositoryName, "e5", T2, "unlinked", UNDEF) >>,
      << CommitNode(repositoryName, "f6", T2, "theirs", "hubot"),
         CommitNode(repositoryName, "g7", T3, "late", UserLogin),
         CommitNode(repositoryName, "h8", UNDEF, "undated", UserLogin) >> }

Wrapper(repositoryName, branchName, hasNextPage, endCursor) ==
    [hasRepository |-> TRUE, nameWithOwner |-> repositoryName, hasHistory |-> TRUE,
     branchName |-> branchName, nodes |-> FirstPageNodes(repositoryName),
     hasNextPage |-> hasNextPage, endCursor |-> endCursor]

WrapperWithoutRepository ==
    [hasRepository |-> FALSE, nameWithOwner |-> UNDEF, hasHistory |-> FALSE,
     branchName |-> UNDEF, nodes |-> <<>>, hasNextPage |-> FALSE, endCursor |-> UNDEF]

WrapperWithoutHistory ==
    [hasRepository |-> TRUE, nameWithOwner |-> "o/lib", hasHistory |-> FALSE,
     branchName |-> UNDEF, nodes |-> <<>>, hasNextPage |-> FALSE, endCursor |-> UNDEF]

WrapperLists ==
    { <<>>,
      << Wrapper("o/r", "main", FALSE, UNDEF) >>,
      << Wrapper("o/r", "main", TRUE, "cursor-1") >>,
      << Wrapper("o/r", "main", TRUE, UNDEF) >>,
      << Wrapper("o/r", "main", TRUE, "cursor-1"), Wrapper("o/lib", "trunk", TRUE, "cursor-1") >>,
      << WrapperWithoutRepository, Wrapper("o/lib", "trunk", TRUE, "cursor-1") >>,
      << WrapperWithoutHistory, Wrapper("o/r", "main", FALSE, UNDEF) >> }

PullRequestNode ==
    [occurredAt |-> T1, title |-> "Add feature", url |-> "https://github.com/o/r/pull/1",
     baseRefName |-> "main"]

ReviewNode ==
    [occurredAt |-> T2, title |-> UNDEF,
     url |-> "https://github.com/o/r/pull/1#pullrequestreview-5", baseRefName |-> "main"]

UndatedNode ==
    [occurredAt |-> UNDEF, title |-> "Draft", url |-> "https://github.com/o/r/pull/1",
     baseRefName |-> "main"]

PullRequestAndReviewNodes ==
    { [pullRequests |-> <<>>, reviews |-> <<>>],
      [pullRequests |-> <<PullRequestNode, UndatedNode>>, reviews |-> <<ReviewNode>>] }

\* answers to getAuthenticated: a login, a failed request, a body without login
IdentityResponses == {"ok", "throws", "nologin"}

\* answers to the aggregate query: a failed request, an error payload, a
\* payload without user.contributionsCollection, or a collection
DiscoveryResponses ==
    { [kind |-> k, wrappers |-> <<>>, pullRequests |-> <<>>, reviews |-> <<>>] :
        k \in {"throws", "errors", "nodata"} }
    \cup
    { [kind |-> "ok", wrappers |-> ws, pullRequests |-> pr.pullRequests, reviews |-> pr.reviews] :
        ws \in WrapperLists, pr \in PullRequestAndReviewNodes }

\* answers to the paginated commit query of one repository
PageResponses(repositoryName) ==
    { [kind |-> k, nodes |-> <<>>, hasNextPage |-> FALSE, endCursor |-> UNDEF] :
        k \in {"throws", "errors", "nohistory"} }
    \cup
    { [kind |-> "page", nodes |-> ns, hasNextPage |-> more[1], endCursor |-> more[2]] :
        ns \in LaterPageNodes(repositoryName),
        more \in { <<FALSE, UNDEF>>, <<TRUE, "cursor-2">>, <<TRUE, UNDEF>> } }

RestCommit(repositoryName, sha, authorDate, message, authorLogin, committerLogin) ==
    [html_url |-> "https://github.com/" \o repositoryName \o "/commit/" \o sha,
     authorDate |-> authorDate, message |-> message,
     authorLogin |-> authorLogin, committerLogin |-> committerLogin]

Throws == [kind |-> "throws", commits |-> <<>>, items |-> <<>>]

\* answers to repos.listBranches
BranchListResponses ==
    { Throws,
      [kind |-> "ok", commits |-> <<>>, items |-> <<"main">>],
      [kind |-> "ok", commits |-> <<>>, items |-> <<"main", "feature-x">>] }

PullRequest(number, merged_at, userLogin, headRef) ==
    [number |-> number, merged_at |-> merged_at, userLogin |-> userLogin, headRef |-> headRef]

\* answers to pulls.list (state closed)
PullRequestListResponses ==
    { Throws,
      [kind |-> "ok", commits |-> <<>>, items |-> <<>>],
      [kind |-> "ok", commits |-> <<>>,
       items |-> << PullRequest(7, T2, UserLogin, "feature-y"),
                    PullRequest(8, T2, "hubot", "theirs"),
                    PullRequest(9, UNDEF, UserLogin, "closed-unmerged"),
                    PullRequest(10, T1, UserLogin, "deleted-branch"),
                    PullRequest(11, T3, UserLogin, "merged-later") >>] }

\* answers to repos.listCommits for a branch (author: login, since, until)
BranchCommitResponses(repositoryName, branchName) ==
    { Throws,
      [kind |-> "ok", items |-> <<>>,
       commits |-> IF branchName = "main"
                   THEN << RestCommit(repositoryName, "a1", T1, "fix\n\nbody", UserLogin, UserLogin) >>
                   ELSE << RestCommit(repositoryName, "a1", T1, "fix\n\nbody", UserLogin, UserLogin),
                           RestCommit(repositoryName, "m5", T2, "wip", UserLogin, UserLogin) >>] }

\* answers to pulls.listCommits for a pull request
PullRequestCommitResponses(repositoryName, pullRequest) ==
    { Throws,
      [kind |-> "ok", items |-> <<>>,
       commits |-> IF pullRequest.number = 7
                   THEN << RestCommit(repositoryName, "p7", T2, "feature", UserLogin, UserLogin),
                           RestCommit(repositoryName, "q8", T2, "rebased", UNDEF, UserLogin),
                           RestCommit(repositoryName, "r9", T2, "theirs", "hubot", "hubot") >>
                   ELSE IF pullRequest.number = 11
                   THEN << RestCommit(repositoryName, "u2", T2, "before the merge", UserLogin, UserLogin) >>
                   ELSE << RestCommit(repositoryName, "m5", T2, "wip", UserLogin, UserLogin),
                           RestCommit(repositoryName, "s0", T3, "late", UserLogin, UserLogin),
                           RestCommit(repositoryName, "t1", UNDEF, "undated", UserLogin, UserLogin) >>] }

\* what the upstream answered for one unit of work: the first page of a
\* history ("history"), a later page ("page"), a listing of a repository
\* ("branches", "pulls"), the commits of a branch or of a pull request
Served(unit, repositoryName, name, kind, commits) ==
    [unit |-> unit, repositoryName |-> repositoryName, name |-> name, kind |-> kind,
     commits |-> commits]

(* GitHub connector: the two fetch calls *)

GitHubInit ==
    /\ gcall \in {"fetchContributions", "fetchAllCommits"}
    /\ gpc = "start"
    /\ identity = "pending"
    /\ discovery = "pending"
    /\ login = UNDEF
    /\ prReviews = <<>>
    /\ tasks = <<>>
    /\ rtasks = <<>>
    /\ served = {}
    /\ gresult = <<>>
    /\ DedupIdle
    /\ CacheIdle
    /\ ReportIdle
    /\ GitLabIdle

\* getUserLogin settles; a failure leaves either fetch call through its await
GetUserLogin ==
    /\ gpc = "start"
    /\ \E response \in IdentityResponses :
         /\ identity' = response
         /\ IF response = "ok"
            THEN login' = UserLogin /\ gpc' = "identified"
            ELSE login' = login /\ gpc' = "failed"
    /\ UNCHANGED <<gcall, discovery, prReviews, tasks, rtasks, served, gresult>>
    /\ UNCHANGED <<dedupVars, cacheVars, reportVars, gitlabVars>>

\* fetchGraphQLContributions throws unless the response carries a collection
fetchGraphQLContributionsThrows(response) == response.kind # "ok"

\* fetchContributions: the aggregate query settles
FetchContributionsDiscovers ==
    /\ gcall = "fetchContributions"
    /\ gpc = "identified"
    /\ \E response \in DiscoveryResponses :
         /\ discovery' = response.kind
         /\ IF fetchGraphQLContributionsThrows(response)
            THEN /\ gpc' = "failed"
                 /\ UNCHANGED <<prReviews, tasks, served>>
            ELSE /\ gpc' = "extracting"
                 /\ prReviews' = <<response.pullRequests, response.reviews>>
                 /\ tasks' = [i \in DOMAIN response.wrappers |->
                                LogFirstPage(
                                    StartRepository(response.wrappers[i],
                                                    parseDateRangeTimestamps(DateRange), login),
                                    response.wrappers[i])]
                 /\ served' = { Served("history", response.wrappers[i].nameWithOwner,
                                        response.wrappers[i].branchName, "ok",
                                        response.wrappers[i].nodes) :
                                   i \in DOMAIN response.wrappers }
    /\ UNCHANGED <<gcall, identity, login, rtasks, gresult>>
    /\ UNCHANGED <<dedupVars, cacheVars, reportVars, gitlabVars>>

\* fetchPaginatedCommits: the page request of one repository settles
PageArrives ==
    /\ gpc = "extracting"
    /\ \E i \in DOMAIN tasks :
         /\ tasks[i].paging
         /\ \E response \in PageResponses(tasks[i].repositoryName) :
              /\ (response.kind = "page" /\ response.hasNextPage /\ Truthy(response.endCursor))
                    => tasks[i].pages + 1 < MaxPages
              /\ tasks' = [tasks EXCEPT ![i] =
                              LogPage(OnPage(tasks[i], response,
                                             parseDateRangeTimestamps(DateRange), login),
                                      response)]
              /\ served' = served \cup { Served("page", tasks[i].repositoryName,
                                                 tasks[i].branchName, response.kind,
                                                 response.nodes) }
    /\ UNCHANGED <<gcall, gpc, identity, discovery, login, prReviews, rtasks, gresult>>
    /\ UNCHANGED <<dedupVars, cacheVars, reportVars, gitlabVars>>

\* every repository is through: pull requests and reviews are added, the
\* whole is deduplicated and returned
FetchContributionsReturns ==
    /\ gpc = "extracting"
    /\ \A i \in DOMAIN tasks : ~tasks[i].paging
    /\ LET allContributions ==
              Flat([i \in DOMAIN tasks |-> tasks[i].contributions])
                \o extractPullRequestContributions(prReviews[1])
                \o extractReviewContributions(prReviews[2])
       IN  gresult' = deduplicateContributions(allContributions)
    /\ gpc' = "returned"
    /\ UNCHANGED <<gcall, identity, discovery, login, prReviews, tasks, rtasks, served>>
    /\ UNCHANGED <<dedupVars, cacheVars, reportVars, gitlabVars>>

\* fetchAllCommits: discoverRepositories settles; its failure is caught and
\* the call returns the deduplicated empty list
FetchAllCommitsDiscovers ==
    /\ gcall = "fetchAllCommits"
    /\ gpc = "identified"
    /\ \E response \in DiscoveryResponses :
         /\ discovery' = response.kind
         /\ IF fetchGraphQLContributionsThrows(response)
            THEN /\ gpc' = "returned"
                 /\ gresult' = deduplicateContributions(<<>>)
                 /\ UNCHANGED rtasks
            ELSE /\ gpc' = "repositories"
                 /\ rtasks' = [i \in DOMAIN RepositoryNames(response.wrappers) |->
                                 StartRepositoryCommits(RepositoryNames(response.wrappers)[i])]
                 /\ UNCHANGED gresult
    /\ UNCHANGED <<gcall, identity, login, prReviews, tasks, served>>
    /\ UNCHANGED <<dedupVars, cacheVars, reportVars, gitlabVars>>

\* repos.listBranches of one repository settles
BranchListArrives ==
    /\ gpc = "repositories"
    /\ \E i \in DOMAIN rtasks, response \in BranchListResponses :
         /\ rtasks[i].phase = "listing"
         /\ rtasks[i].branchesList.status = "pending"
         /\ rtasks' = [rtasks EXCEPT ![i] =
                AfterListing(
                    [rtasks[i] EXCEPT !.branchesList =
                        IF response.kind = "throws" THEN Rejected ELSE Fulfilled(response.items)],
                    login, parseDateRangeTimestamps(DateRange))]
         /\ served' = served \cup { Served("branches", rtasks[i].repositoryName, UNDEF,
                                            response.kind, <<>>) }
    /\ UNCHANGED <<gcall, gpc, identity, discovery, login, prReviews, tasks, gresult>>
    /\ UNCHANGED <<dedupVars, cacheVars, reportVars, gitlabVars>>

\* pulls.list of one repository settles
PullRequestListArrives ==
    /\ gpc = "repositories"
    /\ \E i \in DOMAIN rtasks, response \in PullRequestListResponses :
         /\ rtasks[i].phase = "listing"
         /\ rtasks[i].pullsList.status = "pending"
         /\ rtasks' = [rtasks EXCEPT ![i] =
                AfterListing(
                    [rtasks[i] EXCEPT !.pullsList =
                        IF response.kind = "throws" THEN Rejected ELSE Fulfilled(response.items)],
                    login, parseDateRangeTimestamps(DateRange))]
         /\ served' = served \cup { Served("pulls", rtasks[i].repositoryName, UNDEF,
                                            response.kind, <<>>) }
    /\ UNCHANGED <<gcall, gpc, identity, discovery, login, prReviews, tasks, gresult>>
    /\ UNCHANGED <<dedupVars, cacheVars, reportVars, gitlabVars>>

\* repos.listCommits of one branch settles
BranchCommitsArrive ==
    /\ gpc = "repositories"
    /\ \E i \in DOMAIN rtasks :
         /\ rtasks[i].phase = "branches"
         /\ \E b \in DOMAIN rtasks[i].branchResults :
              /\ rtasks[i].branchResults[b].status = "pending"
              /\ \E response \in BranchCommitResponses(rtasks[i].repositoryName,
                                                       rtasks[i].branchesList.value[b]) :
                   /\ rtasks' = [rtasks EXCEPT ![i] =
                          AfterBranch(
                              [rtasks[i] EXCEPT !.branchResults[b] =
                                  fetchBranchCommits(response, rtasks[i].branchesList.value[b],
                                                     rtasks[i].repositoryName)],
                              login, parseDateRangeTimestamps(DateRange))]
                   /\ served' = served \cup { Served("branch", rtasks[i].repositoryName,
                                                      rtasks[i].branchesList.value[b],
                                                      response.kind, response.commits) }
    /\ UNCHANGED <<gcall, gpc, identity, discovery, login, prReviews, tasks, gresult>>
    /\ UNCHANGED <<dedupVars, cacheVars, reportVars, gitlabVars>>

\* pulls.listCommits of one merged pull request settles
PullRequestCommitsArrive ==
    /\ gpc = "repositories"
    /\ \E i \in DOMAIN rtasks :
         /\ rtasks[i].phase = "pulls"
         /\ \E k \in DOMAIN rtasks[i].pullResults :
              /\ rtasks[i].pullResults[k].status = "pending"
              /\ \E response \in PullRequestCommitResponses(rtasks[i].repositoryName,
                                                            rtasks[i].userMergedPRs[k]) :
                   /\ rtasks' = [rtasks EXCEPT ![i] =
                          AfterPullRequest(
                              [rtasks[i] EXCEPT !.pullResults[k] =
                                  fetchPullRequestCommits(response, rtasks[i].userMergedPRs[k],
                                      login, parseDateRangeTimestamps(DateRange),
                                      rtasks[i].repositoryName)])]
                   /\ served' = served \cup { Served("pull", rtasks[i].repositoryName,
                                                      rtasks[i].userMergedPRs[k].headRef,
                                                      response.kind, response.commits) }
    /\ UNCHANGED <<gcall, gpc, identity, discovery, login, prReviews, tasks, gresult>>
    /\ UNCHANGED <<dedupVars, cacheVars, reportVars, gitlabVars>>

\* every repository is through: the whole is deduplicated and returned
FetchAllCommitsReturns ==
    /\ gpc = "repositories"
    /\ \A i \in DOMAIN rtasks : rtasks[i].phase = "done"
    /\ gresult' = deduplicateContributions(Flat([i \in DOMAIN rtasks |-> rtasks[i].contributions]))
    /\ gpc' = "returned"
    /\ UNCHANGED <<gcall, identity, discovery, login, prReviews, tasks, rtasks, served>>
    /\ UNCHANGED <<dedupVars, cacheVars, reportVars, gitlabVars>>

GitHubNext ==
    \/ GetUserLogin
    \/ FetchContributionsDiscovers
    \/ PageArrives
    \/ FetchContributionsReturns
    \/ FetchAllCommitsDiscovers
    \/ BranchListArrives
    \/ PullRequestListArrives
    \/ BranchCommitsArrive
    \/ PullRequestCommitsArrive
    \/ FetchAllCommitsReturns

SpecGitHub == GitHubInit /\ [][GitHubNext]_vars

----------------------------------------------------------------------------
(* GitHub connector: fetchPaginatedCommits on an upstream that may go on *)

\* The loop of fetchPaginatedCommits keeps no count of its turns: it goes on
\* for as long as the page that arrived has hasNextPage and an end cursor.
\* Here the upstream may answer every page request with one more such page.
\* Cursors are opaque tokens; two of them stand for the fresh cursor each
\* page brings.  Beyond MaxPages pages the upstream sends only pages without
\* a commit of the user, so that the list collected stays bounded.

EndlessCursors == {"cursor-2", "cursor-3"}

EndlessPageResponses(repositoryName) ==
    PageResponses(repositoryName)
    \cup
    { [kind |-> "page", nodes |-> ns, hasNextPage |-> TRUE, endCursor |-> c] :
        ns \in LaterPageNodes(repositoryName), c \in EndlessCursors }

\* fetchPaginatedCommits was called for one repository whose first page
\* signalled more pages
PaginationInit ==
    /\ gcall = "fetchContributions"
    /\ gpc = "extracting"
    /\ identity = "ok"
    /\ discovery = "ok"
    /\ login = UserLogin
    /\ prReviews = << <<>>, <<>> >>
    /\ \E wrapper \in { Wrapper("o/r", "main", TRUE, "cursor-1"),
                        Wrapper("o/lib", "trunk", TRUE, "cursor-1") } :
          tasks = << StartRepository(wrapper, parseDateRangeTimestamps(DateRange), UserLogin) >>
    /\ rtasks = <<>>
    /\ served = {}
    /\ gresult = <<>>
    /\ DedupIdle
    /\ CacheIdle
    /\ ReportIdle
    /\ GitLabIdle

\* one turn of the while loop: the page request is answered
EndlessPageArrives ==
    /\ gpc = "extracting"
    /\ \E i \in DOMAIN tasks :
         /\ tasks[i].paging
         /\ \E response \in EndlessPageResponses(tasks[i].repositoryName) :
              LET after == OnPage(tasks[i], response, parseDateRangeTimestamps(DateRange), login)
              IN  /\ tasks[i].pages < MaxPages \/ after.paginated = tasks[i].paginated
                  /\ tasks' = [tasks EXCEPT ![i] =
                                 [after EXCEPT !.pages = IF @ > MaxPages THEN MaxPages ELSE @]]
                  /\ served' = served \cup { Served("page", tasks[i].repositoryName,
                                                     tasks[i].branchName, response.kind,
                                                     response.nodes) }
    /\ UNCHANGED <<gcall, gpc, identity, discovery, login, prReviews, rtasks, gresult>>
    /\ UNCHANGED <<dedupVars, cacheVars, reportVars, gitlabVars>>

PaginationNext == EndlessPageArrives

\* every page request is answered in the end: by a page, an error payload or
\* a failure
SpecPagination == PaginationInit /\ [][PaginationNext]_vars /\ WF_vars(PaginationNext)

----------------------------------------------------------------------------
(* Cached fetch step of a connector *)

\* filterCacheByDateRange: the contributions whose instant lies in [from, to]
filterCacheByDateRange(cachedContributions, fromDate, toDate) ==
    SelectSeq(cachedContributions,
        LAMBDA contribution :
            /\ DateParse(contribution.timestamp) >= DateParse(fromDate)
            /\ DateParse(contribution.timestamp) <= DateParse(toDate))

\* a range computation that skips the fetch when the cache holds
\* contributions inside the requested range
calculateMissingDateRangeSkipping(cachedContributions, requestedFrom, requestedTo) ==
    IF filterCacheByDateRange(cachedContributions, requestedFrom, requestedTo) # <<>>
    THEN [needsFetch |-> FALSE, fetchFrom |-> UNDEF, fetchTo |-> UNDEF]
    ELSE [needsFetch |-> TRUE, fetchFrom |-> requestedFrom, fetchTo |-> requestedTo]

calculateMissingDateRange(cachedContributions, requestedFrom, requestedTo) ==
    [needsFetch |-> TRUE, fetchFrom |-> requestedFrom, fetchTo |-> requestedTo]

\* The fetch step of one connector with caching enabled: it loads the cache
\* (best-effort), computes the range to fetch, fetches it live, saves the
\* fetched contributions and hands them on; without a fetch it hands on the
\* cached contributions of the window.  The step is followed through its
\* awaits:
\*   "loading" (loadCache) -> "fetching" (the connector's fetchContributions)
\*   -> "saving" (saveCache, a call of its own in calls) -> "done"

\* a fetch step that was just started
NewFetchStep(platform, username, window) ==
    [op |-> "fetchStep",
     pc |-> "loading",
     platform |-> platform,
     username |-> username,
     window |-> window,
     cached |-> <<>>,
     fetched |-> FALSE,
     fetchFrom |-> UNDEF,
     fetchTo |-> UNDEF,
     fresh |-> <<>>,
     handed |-> <<>>,
     save |-> 0,
     stored |-> NoFile]

\* the requested windows
Windows ==
    { [from |-> FromDate, to |-> ToDate], [from |-> T2, to |-> T3] }

\* what the upstream holds for the user
UpstreamLists ==
    { <<MainCommit>>, <<EarlyCommit, OtherRepoCommit>>, <<EarlyPr, MainCommit, OtherRepoCommit>> }

CachedFetchInit ==
    /\ files \in { WriteFile(<<>>, getCacheFilePath(platform, SavedUsername), file) :
                      platform \in Platforms,
                      file \in UNION { { NoFile, DamagedFile(TRUE, "invalid"),
                                         StoredEntry(p, SavedUsername) } : p \in Platforms } }
    /\ directory \in CacheDirectories(files, {"absent", "directory"})
    /\ saves = <<>>
    /\ calls = <<>>
    /\ DedupIdle
    /\ ReportIdle
    /\ GitHubIdle
    /\ GitLabIdle

\* the fetch step of one connector is started: it calls loadCache and waits
ConnectorFetchStep ==
    /\ Made("fetchStep") < MaxCalls
    /\ \E platform \in Platforms, window \in Windows :
         calls' = Append(calls, NewFetchStep(platform, SavedUsername, window))
    /\ UNCHANGED <<directory, files, saves, dedupVars, reportVars, githubVars, gitlabVars>>

\* loadCache returns what the file holds now; the range to fetch is computed
\* and the live fetch is started, or the cached contributions of the window
\* are handed on
FetchStepLoads ==
    /\ \E i \in DOMAIN calls :
         /\ calls[i].op = "fetchStep" /\ calls[i].pc = "loading"
         /\ LET call == calls[i]
                cachedContributions == loadCache(files, call.platform, call.username).value
                range == calculateMissingDateRange(cachedContributions,
                                                   call.window.from, call.window.to)
            IN  calls' = [calls EXCEPT ![i] =
                            IF range.needsFetch
                            THEN [call EXCEPT !.pc = "fetching",
                                              !.cached = cachedContributions,
                                              !.fetched = TRUE,
                                              !.fetchFrom = range.fetchFrom,
                                              !.fetchTo = range.fetchTo]
                            ELSE [call EXCEPT !.pc = "done",
                                              !.cached = cachedContributions,
                                              !.handed = filterCacheByDateRange(
                                                             cachedContributions,
                                                             call.window.from, call.window.to),
                                              !.stored = FileAt(files, getCacheFilePath(
                                                                           call.platform,
                                                                           call.username))]]
    /\ UNCHANGED <<directory, files, saves, dedupVars, reportVars, githubVars, gitlabVars>>

\* the live fetch returns what the upstream holds in the range; the step
\* calls saveCache with it and waits
FetchStepFetches ==
    /\ \E i \in DOMAIN calls :
         /\ calls[i].op = "fetchStep" /\ calls[i].pc = "fetching"
         /\ \E upstream \in UpstreamLists :
              LET call == calls[i]
                  fresh == filterCacheByDateRange(upstream, call.fetchFrom, call.fetchTo)
              IN  calls' = Append([calls EXCEPT ![i] =
                                      [call EXCEPT !.pc = "saving",
                                                   !.fresh = fresh,
                                                   !.save = Len(calls) + 1]],
                                  NewCall("save", call.platform, call.username, fresh))
    /\ UNCHANGED <<directory, files, saves, dedupVars, reportVars, githubVars, gitlabVars>>

\* a step that hands on what the cache holds for the window once it has saved
FetchStepReturnsCached ==
    /\ \E i \in DOMAIN calls :
         /\ calls[i].op = "fetchStep" /\ calls[i].pc = "saving"
         /\ calls[calls[i].save].pc = "done"
         /\ LET call == calls[i]
                stored == FileAt(files, getCacheFilePath(call.platform, call.username))
            IN  calls' = [calls EXCEPT ![i] =
                            [call EXCEPT !.pc = "done",
                                         !.handed = filterCacheByDateRange(
                                                        loadCache(files, call.platform,
                                                                  call.username).value,
                                                        call.window.from, call.window.to),
                                         !.stored = stored]]
    /\ UNCHANGED <<directory, files, saves, dedupVars, reportVars, githubVars, gitlabVars>>

\* saveCache has returned: the step hands on the fetched contributions
FetchStepReturns ==
    /\ \E i \in DOMAIN calls :
         /\ calls[i].op = "fetchStep" /\ calls[i].pc = "saving"
         /\ calls[calls[i].save].pc = "done"
         /\ LET call == calls[i]
            IN  calls' = [calls EXCEPT ![i] =
                            [call EXCEPT !.pc = "done",
                                         !.handed = call.fresh,
                                         !.stored = FileAt(files, getCacheFilePath(
                                                                      call.platform,
                                                                      call.username))]]
    /\ UNCHANGED <<directory, files, saves, dedupVars, reportVars, githubVars, gitlabVars>>

\* the fetch steps of the model work on their cache files one after another
CachedFetchNext ==
    \/ Quiet /\ ConnectorFetchStep
    \/ FetchStepLoads
    \/ FetchStepFetches
    \/ SaveMakesDirectory({"ok"})
    \/ SaveLoads({"ok"})
    \/ SaveOpens({"ok"})
    \/ SaveWrites({"ok"})
    \/ FetchStepReturns

SpecCachedFetch == CachedFetchInit /\ [][CachedFetchNext]_vars

----------------------------------------------------------------------------
(* GitLab connector (src/utils.ts, 224-590) *)

\* parseDateRangeTimestamps of the GitLab connector; it throws on a NaN,
\* which the toISOString() of the requested dates never yields
parseGitLabDateRangeTimestamps(dateRange) ==
    LET fromTimestamp == ParseOrNaN(dateRange.from)
        toTimestamp == ParseOrNaN(dateRange.to)
    IN  IF fromTimestamp = NaN \/ toTimestamp = NaN
        THEN Thrown("Invalid date range provided")
        ELSE [fromTimestamp |-> fromTimestamp, toTimestamp |-> toTimestamp]

\* the branch names of the model
BranchNames == {"main", "master", "develop", "development", "staging", "feature"}

\* reference.replace('refs/heads/', '') on the reference vocabulary
ReplaceRefsHeads(reference) ==
    IF \E branch \in BranchNames : reference = "refs/heads/" \o branch
    THEN CHOOSE branch \in BranchNames : reference = "refs/heads/" \o branch
    ELSE reference

\* url.match(/gitlab\.com\/([^/-]+\/[^/-]+)/)?.[1] on the url vocabulary
extractProjectFromUrl(url) ==
    CASE ~Truthy(url) -> UNDEF
      [] url = "https://gitlab.com/group/project/-/merge_requests/1" -> "group/project"
      [] url = "https://gitlab.com/group/project/-/merge_requests/3" -> "group/project"
      [] url = "https://gitlab.com/group/other/-/merge_requests/4" -> "group/other"
      [] url = "https://gitlab.com/my-group/project/-/merge_requests/2" -> UNDEF
      [] OTHER -> UNDEF

\* fetchEventsApiData: a failed request and an answer that is no array give []
fetchEventsApiData(response) ==
    IF response.kind = "ok" THEN response.items ELSE <<>>

\* fetchMergeRequests: a failed request and an answer that is no array give []
fetchMergeRequests(response) ==
    IF response.kind = "ok" THEN response.items ELSE <<>>

\* fetchProject: the project, or null (a record without path) on failure
NullProject == [path_with_namespace |-> UNDEF]

fetchProject(response) ==
    IF response.kind = "ok" THEN response.project ELSE NullProject

\* project?.path_with_namespace behind `if (projectId)`; the project is the
\* one the projectCache of the running extraction holds
ProjectPath(projectId, projectCache) ==
    IF projectId = UNDEF THEN UNDEF ELSE projectCache[projectId].path_with_namespace

\* createdTimestamp <= fromTimestamp || createdTimestamp > toTimestamp
OutsideEventRange(createdTimestamp, dateRangeTimestamps) ==
    \/ createdTimestamp <= dateRangeTimestamps.fromTimestamp
    \/ createdTimestamp > dateRangeTimestamps.toTimestamp

\* the `continue` tests of extractPushEventContributions without the
\* base-branch test
PushEventKeptAnyBranch(event, dateRangeTimestamps, baseBranchNames) ==
    /\ event.action_name \in {"pushed to", "pushed new"}
    /\ event.created_at # UNDEF
    /\ event.ref # UNDEF
    /\ ParseOrNaN(event.created_at) # NaN
    /\ ~OutsideEventRange(ParseOrNaN(event.created_at), dateRangeTimestamps)

\* the `continue` tests of extractPushEventContributions: TRUE for an event
\* the loop goes on with
PushEventKept(event, dateRangeTimestamps, baseBranchNames) ==
    LET baseBranchReferences ==
            { "refs/heads/" \o baseBranchNames[b] : b \in DOMAIN baseBranchNames }
    IN  /\ event.action_name \in {"pushed to", "pushed new"}
        /\ event.created_at # UNDEF
        /\ event.ref # UNDEF
        /\ ParseOrNaN(event.created_at) # NaN
        /\ ~OutsideEventRange(ParseOrNaN(event.created_at), dateRangeTimestamps)
        /\ event.ref \in baseBranchReferences

\* an extraction (extractPushEventContributions, extractMergeRequestContributions)
\* at its start: the loop at the first item, no Contribution, an empty projectCache
NewExtraction ==
    [position |-> 1, contributions |-> <<>>, projectCache |-> <<>>, awaiting |-> UNDEF]

\* projectCache.set(projectId, project)
ProjectCacheSet(projectCache, projectId, project) ==
    [id \in (DOMAIN projectCache) \cup {projectId} |->
        IF id = projectId THEN project ELSE projectCache[id]]

\* extractPushEventContributions from the state `extraction` as far as it runs
\* without an answer of the upstream: to its return (awaiting is undefined),
\* or to the `await this.fetchProject(projectId)` of the event at `position`
RECURSIVE extractPushEventContributions(_, _, _, _)
extractPushEventContributions(extraction, eventList, dateRangeTimestamps, baseBranchNames) ==
    IF extraction.position > Len(eventList)
    THEN extraction
    ELSE LET event == eventList[extraction.position]
         IN  IF ~PushEventKept(event, dateRangeTimestamps, baseBranchNames)
             THEN extractPushEventContributions(
                      [extraction EXCEPT !.position = @ + 1],
                      eventList, dateRangeTimestamps, baseBranchNames)
             ELSE IF event.project_id # UNDEF
                     /\ event.project_id \notin DOMAIN extraction.projectCache
             THEN [extraction EXCEPT !.awaiting = event.project_id]
             ELSE extractPushEventContributions(
                      [extraction EXCEPT
                          !.position = @ + 1,
                          !.contributions = Append(@,
                              Contribution("commit", event.created_at, event.commit_title,
                                  UNDEF,
                                  ProjectPath(event.project_id, extraction.projectCache),
                                  ReplaceRefsHeads(event.ref)))],
                      eventList, dateRangeTimestamps, baseBranchNames)

\* extractReviewContributions of the GitLab connector: approvals in the range
extractApprovalContributions(eventList, dateRangeTimestamps) ==
    LET kept == SelectSeq(eventList,
                LAMBDA event :
                    /\ ~(/\ event.action_name # "commented on"
                         /\ event.action_name # "approved"
                         /\ event.target_type # "MergeRequest")
                    /\ event.created_at # UNDEF
                    /\ ParseOrNaN(event.created_at) # NaN
                    /\ ~OutsideEventRange(ParseOrNaN(event.created_at), dateRangeTimestamps)
                    /\ event.action_name = "approved")
    IN  [i \in DOMAIN kept |->
            Contribution("review", kept[i].created_at, "review", UNDEF, UNDEF, UNDEF)]

\* extractMergeRequestContributions from the state `extraction` as far as it
\* runs without an answer of the upstream: to its return, or to the
\* `await this.fetchProject(projectId)` of the merge request at `position`
RECURSIVE extractMergeRequestContributions(_, _)
extractMergeRequestContributions(extraction, mergeRequestList) ==
    IF extraction.position > Len(mergeRequestList)
    THEN extraction
    ELSE LET mergeRequest == mergeRequestList[extraction.position]
             projectPath == ProjectPath(mergeRequest.project_id, extraction.projectCache)
         IN  IF mergeRequest.created_at = UNDEF
             THEN extractMergeRequestContributions(
                      [extraction EXCEPT !.position = @ + 1], mergeRequestList)
             ELSE IF mergeRequest.project_id # UNDEF
                     /\ mergeRequest.project_id \notin DOMAIN extraction.projectCache
             THEN [extraction EXCEPT !.awaiting = mergeRequest.project_id]
             ELSE extractMergeRequestContributions(
                      [extraction EXCEPT
                          !.position = @ + 1,
                          !.contributions = Append(@,
                              Contribution("pr", mergeRequest.created_at, mergeRequest.title,
                                  mergeRequest.web_url,
                                  IF Truthy(projectPath) THEN projectPath
                                  ELSE extractProjectFromUrl(mergeRequest.web_url),
                                  mergeRequest.target_branch))],
                      mergeRequestList)

\* the key of the connector's own deduplication
GitLabKey(contribution) ==
    contribution.type \o "|" \o contribution.timestamp \o "|"
        \o OrEmpty(contribution.url) \o "|" \o OrEmpty(contribution.text) \o "|"
        \o OrEmpty(contribution.repository) \o "|" \o OrEmpty(contribution.target)

RECURSIVE GitLabDedupLoop(_, _, _)
GitLabDedupLoop(list, seenKeys, kept) ==
    IF list = <<>> THEN kept
    ELSE IF GitLabKey(Head(list)) \in seenKeys
    THEN GitLabDedupLoop(Tail(list), seenKeys, kept)
    ELSE GitLabDedupLoop(Tail(list), seenKeys \cup {GitLabKey(Head(list))},
                         Append(kept, Head(list)))

\* GitLabConnector.deduplicateContributions: the first Contribution of each key
gitlabDeduplicateContributions(list) == GitLabDedupLoop(list, {}, <<>>)

(* GitLab connector: what the upstream answers *)

GitLabEvent(action_name, target_type, created_at, ref, commit_title, project_id) ==
    [action_name |-> action_name, target_type |-> target_type, created_at |-> created_at,
     ref |-> ref, commit_title |-> commit_title, project_id |-> project_id]

PushEvent(created_at, ref, commit_title) ==
    GitLabEvent("pushed to", UNDEF, created_at, ref, commit_title, "456")

GitLabMergeRequest(created_at, title, web_url, project_id, target_branch) ==
    [created_at |-> created_at, title |-> title, web_url |-> web_url,
     project_id |-> project_id, target_branch |-> target_branch]

\* the Configuration of the connector
Configurations ==
    { [baseBranches |-> DefaultBaseBranches],
      [baseBranches |-> <<"main", "staging">>],
      [baseBranches |-> <<"feature">>] }

\* answers to the Users.showCurrentUser of getUserId: a user with id 123, a
\* rejection, a user without id, null
UserResponses == {"ok", "throws", "noid", "null"}

\* answers to the Users.showCurrentUser of getUserLogin: the user {id: 123,
\* username: "octo"}, a rejection, the user without id, the user without
\* username, null
LoginResponses == {"ok", "throws", "noid", "nousername", "null"}

\* answers to Users.allEvents
EventsResponses ==
    { [kind |-> "throws", items |-> <<>>],
      [kind |-> "notArray", items |-> <<>>],
      [kind |-> "ok",
       items |-> << PushEvent(FromDate, "refs/heads/main", "At the start"),
                    PushEvent(T1, "refs/heads/main", "Main commit"),
                    PushEvent(T1, "refs/heads/feature", "Feature commit"),
                    PushEvent(ToDate, "refs/heads/main", "At the end") >>],
      [kind |-> "ok",
       items |-> << PushEvent("2024-12-31T23:00:00Z", "refs/heads/main", "Old commit"),
                    PushEvent(T2, "refs/heads/staging", "Staging commit"),
                    PushEvent(T3, "refs/heads/main", "Future commit"),
                    GitLabEvent("approved", "MergeRequest", T2, UNDEF, UNDEF, "456") >>],
      [kind |-> "ok",
       items |-> << PushEvent(T1, "refs/heads/main", "Add feature"),
                    PushEvent(T1, "refs/heads/main", "Add feature"),
                    GitLabEvent("pushed new", UNDEF, T2, "refs/heads/develop", UNDEF, UNDEF),
                    GitLabEvent("commented on", "MergeRequest", T2, UNDEF, UNDEF, "456") >>],
      [kind |-> "ok",
       items |-> << PushEvent(UNDEF, "refs/heads/main", "Undated"),
                    PushEvent("not-a-date", "refs/heads/main", "Misdated"),
                    PushEvent(T1, UNDEF, "No ref"),
                    GitLabEvent("approved", "MergeRequest", FromDate, UNDEF, UNDEF, "456") >>],
      [kind |-> "ok",
       items |-> << PushEvent(T1, "refs/heads/main", "In one project"),
                    GitLabEvent("pushed to", UNDEF, T2, "refs/heads/main", "In another", "789"),
                    PushEvent(T2, "refs/heads/main", "In the first again") >>] }

\* answers to a Projects.show of an extraction
ProjectResponses ==
    { [kind |-> "throws", project |-> NullProject],
      [kind |-> "ok", project |-> [path_with_namespace |-> "test/repo"]] }

\* answers to MergeRequests.all (createdAfter: from, createdBefore: to): the
\* upstream filters by creation date, the connector does not
MergeRequestResponses ==
    { [kind |-> "throws", items |-> <<>>],
      [kind |-> "notArray", items |-> <<>>],
      [kind |-> "ok", items |-> <<>>],
      [kind |-> "ok",
       items |-> << GitLabMergeRequest(T1, "Add login",
                        "https://gitlab.com/group/project/-/merge_requests/1", "456", "main"),
                    GitLabMergeRequest(T1, "Add login (edited)",
                        "https://gitlab.com/group/project/-/merge_requests/1", "456", "main") >>],
      [kind |-> "ok",
       items |-> << GitLabMergeRequest(T2, "Fix",
                        "https://gitlab.com/my-group/project/-/merge_requests/2", UNDEF, "staging"),
                    GitLabMergeRequest(T2, "Fix",
                        "https://gitlab.com/my-group/project/-/merge_requests/2", UNDEF, "staging"),
                    GitLabMergeRequest(UNDEF, "Undated",
                        "https://gitlab.com/group/project/-/merge_requests/3", "456", "main") >>],
      [kind |-> "ok",
       items |-> << GitLabMergeRequest(ToDate, "At the end",
                        "https://gitlab.com/group/project/-/merge_requests/3", "456", "main"),
                    GitLabMergeRequest(ToDate, "In another project",
                        "https://gitlab.com/group/other/-/merge_requests/4", "789", "main") >>] }

(* GitLab connector: getUserLogin and fetchContributions *)

GitLabInit ==
    /\ lpc = "start"
    /\ configuration \in Configurations
    /\ userId = UNDEF
    /\ gitlabLogin = NotCalled
    /\ events = <<>>
    /\ extracting = NewExtraction
    /\ mergeRequests = <<>>
    /\ gathered = <<>>
    /\ lresult = <<>>
    /\ DedupIdle
    /\ CacheIdle
    /\ ReportIdle
    /\ GitHubIdle

\* getUserLogin is called: its request Users.showCurrentUser is under way
getUserLogin ==
    /\ gitlabLogin # Pending
    /\ gitlabLogin' = Pending
    /\ UNCHANGED <<lpc, configuration, userId, events, extracting, mergeRequests,
                   gathered, lresult>>
    /\ UNCHANGED <<dedupVars, cacheVars, reportVars, githubVars>>

\* the request of getUserLogin settles: without a username the call throws,
\* with one it keeps the id of the user, when the user has one, and returns
\* the username
UserLoginArrives ==
    /\ gitlabLogin = Pending
    /\ \E response \in LoginResponses :
         CASE response = "throws" ->
                 gitlabLogin' = Rejected /\ userId' = userId
           [] response \in {"null", "nousername"} ->
                 /\ gitlabLogin' =
                       Thrown("Unable to determine authenticated user username from GitLab.")
                 /\ userId' = userId
           [] response = "noid" ->
                 gitlabLogin' = Fulfilled("octo") /\ userId' = userId
           [] OTHER ->
                 gitlabLogin' = Fulfilled("octo") /\ userId' = "123"
    /\ UNCHANGED <<lpc, configuration, events, extracting, mergeRequests, gathered, lresult>>
    /\ UNCHANGED <<dedupVars, cacheVars, reportVars, githubVars>>

\* fetchContributions is called, no other fetchContributions being under way:
\* with the id kept getUserId makes no request and the call goes on to
\* Users.allEvents, else Users.showCurrentUser is under way
fetchContributions ==
    /\ lpc \in {"start", "returned", "failed"}
    /\ lpc' = IF userId # UNDEF THEN "identified" ELSE "user"
    /\ events' = <<>>
    /\ extracting' = NewExtraction
    /\ mergeRequests' = <<>>
    /\ gathered' = <<>>
    /\ lresult' = <<>>
    /\ UNCHANGED <<configuration, userId, gitlabLogin>>
    /\ UNCHANGED <<dedupVars, cacheVars, reportVars, githubVars>>

\* the request of getUserId settles; a failure or a user without id leaves
\* the call
GetUserId ==
    /\ lpc = "user"
    /\ \E response \in UserResponses :
         IF response = "ok"
         THEN userId' = "123" /\ lpc' = "identified"
         ELSE userId' = userId /\ lpc' = "failed"
    /\ UNCHANGED <<configuration, gitlabLogin, events, extracting, mergeRequests,
                   gathered, lresult>>
    /\ UNCHANGED <<dedupVars, cacheVars, reportVars, githubVars>>

\* fetchContributions with extractPushEventContributions at `next`: waiting
\* for a project, or the commits are gathered, the reviews are extracted from
\* the approvals and MergeRequests.all is requested
PushEventsExtracted(eventList, next) ==
    /\ extracting' = next
    /\ IF next.awaiting # UNDEF
       THEN /\ gathered' = gathered
            /\ lpc' = "pushProject"
       ELSE /\ gathered' =
                  gathered \o next.contributions
                    \o extractApprovalContributions(eventList,
                           parseGitLabDateRangeTimestamps(DateRange))
            /\ lpc' = "events"

\* fetchEventsApiData settles; extractPushEventContributions runs to its
\* first fetchProject or to its end
EventsArrive ==
    /\ lpc = "identified"
    /\ \E response \in EventsResponses :
         LET fetched == fetchEventsApiData(response)
         IN  /\ events' = fetched
             /\ PushEventsExtracted(fetched,
                    extractPushEventContributions(NewExtraction, fetched,
                        parseGitLabDateRangeTimestamps(DateRange),
                        configuration.baseBranches))
    /\ UNCHANGED <<configuration, userId, gitlabLogin, mergeRequests, lresult>>
    /\ UNCHANGED <<dedupVars, cacheVars, reportVars, githubVars>>

\* a fetchProject of extractPushEventContributions settles: the project goes
\* to the projectCache and the loop runs on
PushProjectArrives ==
    /\ lpc = "pushProject"
    /\ \E response \in ProjectResponses :
         PushEventsExtracted(events,
             extractPushEventContributions(
                 [extracting EXCEPT
                     !.projectCache = ProjectCacheSet(@, extracting.awaiting,
                                                      fetchProject(response)),
                     !.awaiting = UNDEF],
                 events, parseGitLabDateRangeTimestamps(DateRange),
                 configuration.baseBranches))
    /\ UNCHANGED <<configuration, userId, gitlabLogin, events, mergeRequests, lresult>>
    /\ UNCHANGED <<dedupVars, cacheVars, reportVars, githubVars>>

\* fetchContributions with extractMergeRequestContributions at `next`: waiting
\* for a project, or the merge requests are gathered and the whole is
\* deduplicated and returned
MergeRequestsExtracted(next) ==
    /\ extracting' = next
    /\ IF next.awaiting # UNDEF
       THEN /\ gathered' = gathered
            /\ lresult' = lresult
            /\ lpc' = "mergeRequestProject"
       ELSE /\ gathered' = gathered \o next.contributions
            /\ lresult' = gitlabDeduplicateContributions(gathered \o next.contributions)
            /\ lpc' = "returned"

\* fetchMergeRequests settles; extractMergeRequestContributions runs to its
\* first fetchProject or to its end
MergeRequestsArrive ==
    /\ lpc = "events"
    /\ \E response \in MergeRequestResponses :
         LET fetched == fetchMergeRequests(response)
         IN  /\ mergeRequests' = fetched
             /\ MergeRequestsExtracted(
                    extractMergeRequestContributions(NewExtraction, fetched))
    /\ UNCHANGED <<configuration, userId, gitlabLogin, events>>
    /\ UNCHANGED <<dedupVars, cacheVars, reportVars, githubVars>>

\* a fetchProject of extractMergeRequestContributions settles: the project
\* goes to the projectCache and the loop runs on
MergeRequestProjectArrives ==
    /\ lpc = "mergeRequestProject"
    /\ \E response \in ProjectResponses :
         MergeRequestsExtracted(
             extractMergeRequestContributions(
                 [extracting EXCEPT
                     !.projectCache = ProjectCacheSet(@, extracting.awaiting,
                                                      fetchProject(response)),
                     !.awaiting = UNDEF],
                 mergeRequests))
    /\ UNCHANGED <<configuration, userId, gitlabLogin, events, mergeRequests>>
    /\ UNCHANGED <<dedupVars, cacheVars, reportVars, githubVars>>

GitLabNext ==
    \/ getUserLogin
    \/ UserLoginArrives
    \/ fetchContributions
    \/ GetUserId
    \/ EventsArrive
    \/ PushProjectArrives
    \/ MergeRequestsArrive
    \/ MergeRequestProjectArrives

SpecGitLab == GitLabInit /\ [][GitLabNext]_vars

----------------------------------------------------------------------------
(* Deduplicator: claims *)

\* the deduplication key as the specification words it: (type, url) for a
\* non-empty url, otherwise (type, timestamp, text, repository, target),
\* an absent field counting as the empty one
DedupKey(c) ==
    IF Truthy(c.url) THEN <<c.type, c.url>>
    ELSE <<c.type, c.timestamp, OrEmpty(c.text), OrEmpty(c.repository), OrEmpty(c.target)>>

\* the target names a member of Configuration.baseBranches (letter case aside)
IsConfiguredBaseBranch(t) ==
    Truthy(t) /\ \E i \in DOMAIN baseBranches : toLowerCase(baseBranches[i]) = toLowerCase(t)

\* preference class of a record under the conflict rule
Rank(c) == IF isBaseBranch(c.target) THEN 2 ELSE IF Truthy(c.target) THEN 1 ELSE 0

AllCarryUrl(cs) == \A i \in DOMAIN cs : Truthy(cs[i].url)

\* C1: the output holds exactly one Contribution for each deduplication key
\* that occurs in the input, and nothing that is not in the input.
C1_OnePerKey ==
    dpc # "input" =>
        /\ SeqToSet(result) \subseteq SeqToSet(contributions)
        /\ \A c \in SeqToSet(contributions) :
              Cardinality({ i \in DOMAIN result : DedupKey(result[i]) = DedupKey(c) }) = 1

\* C2: deduplicating an already deduplicated list changes nothing (as sets).
C2_Idempotent ==
    dpc = "again" => SeqToSet(again) = SeqToSet(result)

C2_Witness ==
    /\ dpc = "again"
    /\ Len(contributions) = 3
    /\ Len(result) = 2
    /\ Len(again) = 2

\* C3: of two same-key Contributions of which exactly one has a target that is
\* a member of Configuration.baseBranches, that one survives, in either order.
C3_ConfiguredBaseBranchWins ==
    (/\ dpc = "deduplicated"
     /\ Len(contributions) = 2
     /\ DedupKey(contributions[1]) = DedupKey(contributions[2])
     /\ IsConfiguredBaseBranch(contributions[1].target)
          # IsConfiguredBaseBranch(contributions[2].target))
    => result = << IF IsConfiguredBaseBranch(contributions[1].target)
                   THEN contributions[1] ELSE contributions[2] >>

\* C4 as stated: for a list whose elements all carry a url every permutation
\* yields the same set of surviving Contributions.
C4_SameSurvivors ==
    (dpc = "permuted" /\ AllCarryUrl(contributions))
    => SeqToSet(permutedResult) = SeqToSet(result)

\* C4 amended: for a list whose elements all carry a url every permutation
\* yields the same surviving keys, each with a survivor of the same
\* preference class (base branch, other branch, no branch).
C4_SameKeysAndRanks ==
    (dpc = "permuted" /\ AllCarryUrl(contributions))
    => { <<DedupKey(c), Rank(c)>> : c \in SeqToSet(permutedResult) }
         = { <<DedupKey(c), Rank(c)>> : c \in SeqToSet(result) }

C4_Witness ==
    /\ dpc = "permuted"
    /\ AllCarryUrl(contributions)
    /\ Len(contributions) = 3
    /\ permuted # contributions
    /\ Len(result) = 1
    /\ permutedResult # result
    /\ \E i, j \in DOMAIN contributions : Rank(contributions[i]) # Rank(contributions[j])

----------------------------------------------------------------------------
(* Cache Store: claims *)

\* call i is a saveCache call that was fulfilled
FulfilledSave(i) == calls[i].op = "save" /\ calls[i].promise.status = "fulfilled"

\* calls i and j are saveCache calls of one cache file
SameCacheFile(i, j) ==
    /\ calls[i].op = "save" /\ calls[j].op = "save"
    /\ getCacheFilePath(calls[i].platform, calls[i].username)
          = getCacheFilePath(calls[j].platform, calls[j].username)

\* save i and then save j of the same cache file were fulfilled, with no
\* save of that file between them
SaveThenSave(i, j) ==
    /\ i < j
    /\ FulfilledSave(i) /\ FulfilledSave(j)
    /\ SameCacheFile(i, j)
    /\ \A k \in DOMAIN calls : (i < k /\ k < j) => ~SameCacheFile(i, k)

\* the loadCache inside save j read the stored entry: readFile gave the
\* text and the text parsed to an object
LoadHit(j) == calls[j].read = "ok" /\ calls[j].observed.json \in {"entry", "{}"}

\* every save of the cache file fulfilled after save i, up to save j, read
\* the stored entry when it loaded the cache
Carried(i, j) ==
    \A k \in DOMAIN calls :
        (i < k /\ k <= j /\ FulfilledSave(k) /\ SameCacheFile(i, k)) => LoadHit(k)

\* stored holds c itself or a record the Deduplicator keys like c and ranks no lower
KeptOrSuperseded(c, stored) ==
    \E d \in SeqToSet(stored) : makeKey(d) = makeKey(c) /\ Rank(d) >= Rank(c)

\* C5 as stated: from any cache state, after save A then save B the stored
\* contributions contain every element of deduplicate(A ++ B).
C5_ContainsDedupOfBoth ==
    \A i, j \in DOMAIN calls :
        SaveThenSave(i, j) =>
            SeqToSet(deduplicateContributions(calls[i].newContributions \o calls[j].newContributions))
                \subseteq SeqToSet(calls[j].stored.contributions)

\* C5 amended: after save A then save B, both fulfilled: when the load inside
\* save B read the stored entry, the stored contributions contain, for every
\* element of deduplicate(A ++ B), that element or a same-key record of at
\* least its preference class, and every element itself when save A started
\* from no stored contributions; when that load failed, they are the
\* deduplication of B alone, in ascending order.
C5_ContainsDedupOfBothWhenLoaded ==
    \A i, j \in DOMAIN calls :
        SaveThenSave(i, j) =>
            LET both == deduplicateContributions(
                            calls[i].newContributions \o calls[j].newContributions)
                stored == calls[j].stored.contributions
            IN  /\ LoadHit(j) =>
                      /\ \A c \in SeqToSet(both) : KeptOrSuperseded(c, stored)
                      /\ calls[i].existingContributions = <<>> =>
                            SeqToSet(both) \subseteq SeqToSet(stored)
                /\ ~LoadHit(j) =>
                      stored = SortAscending(deduplicateContributions(calls[j].newContributions))

\* save A found no entry and stored a commit on a feature branch with a pull
\* request; save B read that entry and brought the commit on trunk: the file
\* holds the pull request and the commit on trunk
C5_Witness ==
    \E i, j \in DOMAIN calls :
        /\ SaveThenSave(i, j)
        /\ LoadHit(j)
        /\ calls[i].existingContributions = <<>>
        /\ calls[i].newContributions = <<FeatureCommit, EarlyPr>>
        /\ calls[j].newContributions = <<TrunkCommit>>
        /\ FileAt(files, getCacheFilePath(calls[j].platform, calls[j].username)).contributions
              = <<EarlyPr, TrunkCommit>>

\* C6 as stated: a Contribution stored by, or passed to, a save is itself in
\* the cache after every later save of that identity.
C6_NothingDropped ==
    \A i, j \in DOMAIN calls :
        (i <= j /\ FulfilledSave(i) /\ FulfilledSave(j) /\ SameCacheFile(i, j)) =>
            (SeqToSet(calls[i].newContributions) \cup SeqToSet(calls[i].stored.contributions))
                \subseteq SeqToSet(calls[j].stored.contributions)

\* C6 amended: a Contribution stored by, or passed to, a fulfilled save is in
\* the cache after every later fulfilled save of that identity, unless a
\* record with the same deduplication key and at least its preference class
\* is kept instead, as long as every fulfilled save after it read the stored
\* entry when it loaded the cache; a save whose load failed stores the
\* deduplication of its own batch alone.
C6_NothingDroppedWhileLoaded ==
    \A i, j \in DOMAIN calls :
        (i <= j /\ FulfilledSave(i) /\ FulfilledSave(j) /\ SameCacheFile(i, j)) =>
            /\ Carried(i, j) =>
                  \A c \in SeqToSet(calls[i].newContributions)
                              \cup SeqToSet(calls[i].stored.contributions) :
                      KeptOrSuperseded(c, calls[j].stored.contributions)
            /\ ~LoadHit(j) =>
                  calls[j].stored.contributions
                      = SortAscending(deduplicateContributions(calls[j].newContributions))

\* over the entry of an earlier run a save brought the commit on trunk, which
\* took the place of the stored commit on the feature branch, and the next
\* save brought the commit on the feature branch again, for which the stored
\* commit on trunk stands, with a pull request, which was added
C6_Witness ==
    /\ Len(calls) = 2
    /\ FulfilledSave(1) /\ FulfilledSave(2)
    /\ LoadHit(1) /\ LoadHit(2)
    /\ calls[1].existingContributions = <<EarlyCommit, FeatureCommit>>
    /\ calls[1].newContributions = <<TrunkCommit>>
    /\ calls[1].stored.contributions = <<EarlyCommit, TrunkCommit>>
    /\ calls[2].newContributions = <<FeatureCommit, EarlyPr>>
    /\ Len(FileAt(files, getCacheFilePath(calls[2].platform, calls[2].username)).contributions) = 3
    /\ KeptOrSuperseded(FeatureCommit, calls[2].stored.contributions)
    /\ FeatureCommit \notin SeqToSet(calls[2].stored.contributions)

\* C11: loadCache never fails: its promise is fulfilled, with the stored
\* contributions array when the file holds a valid entry and was read, and
\* with the empty list when the file is missing, cannot be read or does not
\* parse to an entry.
C11_LoadNeverFails ==
    \A i \in DOMAIN calls :
        (calls[i].op = "load" /\ calls[i].pc = "done") =>
            /\ calls[i].promise.status = "fulfilled"
            /\ calls[i].promise.value =
                  IF calls[i].observed.exists /\ calls[i].observed.readable
                        /\ calls[i].read = "ok"
                        /\ calls[i].observed.json = "entry"
                  THEN calls[i].observed.contributions
                  ELSE <<>>

\* one load met a stored entry its readFile could not read and returned the
\* empty list, another read that entry and returned its contributions
C11_Witness ==
    /\ \E i \in DOMAIN calls :
         /\ calls[i].op = "load"
         /\ calls[i].observed.json = "entry"
         /\ calls[i].read = "EIO"
         /\ calls[i].promise = Fulfilled(<<>>)
    /\ \E i \in DOMAIN calls :
         /\ calls[i].op = "load"
         /\ calls[i].observed.json = "entry"
         /\ calls[i].promise = Fulfilled(<<EarlyCommit, FeatureCommit>>)

\* a disk operation of the save failed (mkdir and write hold how fs.mkdir and
\* fs.writeFile ended, "pending" when the save did not get that far)
DiskFailed(call) == call.mkdir \notin {"ok", "pending"} \/ call.write \notin {"ok", "pending"}

\* the cache file holds an entry in which every given Contribution is kept
\* or superseded by a same-key record
Written(call) ==
    /\ call.stored.exists
    /\ call.stored.json = "entry"
    /\ \A c \in SeqToSet(call.newContributions) : KeptOrSuperseded(c, call.stored.contributions)

\* C12: a save during which mkdir or writeFile failed is rejected with the
\* error of a failed operation, and a save that completes successfully has
\* written the Contributions it was given to the cache file.
C12_FailedSaveFails ==
    \A i \in DOMAIN calls :
        (calls[i].op = "save" /\ calls[i].pc = "done") =>
            /\ DiskFailed(calls[i]) =>
                  /\ calls[i].promise.status = "rejected"
                  /\ calls[i].promise.error \in {calls[i].mkdir, calls[i].write} \ {"ok", "pending"}
            /\ calls[i].promise.status = "fulfilled" => Written(calls[i])

\* a save whose writeFile ran out of space was rejected and left the file cut
\* short; a later save on the working disk completed and wrote its input
C12_Witness ==
    /\ Len(calls) = 2
    /\ calls[1].op = "save"
    /\ calls[1].write = "ENOSPC"
    /\ calls[1].promise = Thrown("ENOSPC")
    /\ calls[1].stored = DamagedFile(TRUE, "invalid")
    /\ calls[2].op = "save"
    /\ calls[2].username = calls[1].username
    /\ calls[2].newContributions = <<MainCommit>>
    /\ calls[2].promise.status = "fulfilled"
    /\ calls[2].stored.contributions = <<MainCommit>>

\* the fetch steps that have returned
FetchSteps == { i \in DOMAIN calls : calls[i].op = "fetchStep" /\ calls[i].pc = "done" }

\* C16: with caching enabled the fetch step of a connector always fetches
\* live, for the whole requested window, whatever the cache holds; the
\* fetched Contributions are in the cache afterwards (kept, or superseded by
\* a same-key record) and the step hands on the fetched list, not the cache.
C16_AlwaysFetchesAndHandsFresh ==
    \A i \in FetchSteps :
        /\ calls[i].fetched
        /\ calls[i].fetchFrom = calls[i].window.from
        /\ calls[i].fetchTo = calls[i].window.to
        /\ calls[i].stored.exists /\ calls[i].stored.json = "entry"
        /\ \A c \in SeqToSet(calls[i].fresh) : KeptOrSuperseded(c, calls[i].stored.contributions)
        /\ calls[i].handed = calls[i].fresh

\* the cache held two contributions of the requested window; the step still
\* fetched, got one other contribution, handed on only that one and stored
\* all three
C16_Witness ==
    \E i \in FetchSteps :
        /\ calls[i].cached = <<EarlyCommit, FeatureCommit>>
        /\ calls[i].window = [from |-> FromDate, to |-> ToDate]
        /\ calls[i].fetched
        /\ calls[i].handed = <<EarlyPr, MainCommit>>
        /\ Len(calls[i].stored.contributions) = 3

----------------------------------------------------------------------------
\* ascending by instant, oldest first
AscendingByTimestamp(list) ==
    \A m, n \in DOMAIN list :
        m < n => DateParse(list[m].timestamp) <= DateParse(list[n].timestamp)

\* no save has the cache file open for writing
NoSaveWriting == \A c \in DOMAIN calls : calls[c].pc # "writing"

\* C22: after every save that succeeded the contributions stored for the
\* identity are in ascending order of their timestamps, whatever the order of
\* the entry found and of the new batch.
C22_StoredAscending ==
    \A i \in DOMAIN saves :
        /\ AscendingByTimestamp(saves[i].after)
        /\ (i = Len(saves) /\ NoSaveWriting) =>
              FileAt(files, saves[i].filePath).contributions = saves[i].after

\* a save found an entry out of order, was given a batch out of order, and
\* stored contributions of two instants
C22_Witness ==
    \E i \in DOMAIN saves :
        /\ ~AscendingByTimestamp(saves[i].before)
        /\ ~AscendingByTimestamp(saves[i].newContributions)
        /\ \E m, n \in DOMAIN saves[i].after :
              DateParse(saves[i].after[m].timestamp) < DateParse(saves[i].after[n].timestamp)

\* the instants of the stored contributions
StoredInstants(entry) ==
    { DateParse(entry.contributions[n].timestamp) : n \in DOMAIN entry.contributions }

\* C23: after every save that succeeded the metadata of the entry agree with
\* its contributions: contributionCount is their number, and earliest and
\* latest are the smallest and the largest of their timestamps (of an entry
\* without contributions nothing is said; each is a reading of the clock
\* taken during the save).
C23_MetadataAgree ==
    \A i \in DOMAIN saves :
        (i = Len(saves) /\ NoSaveWriting) =>
            LET entry == FileAt(files, saves[i].filePath)
            IN  /\ entry.contributions = saves[i].after
                /\ entry.metadata.contributionCount = Len(entry.contributions)
                /\ entry.contributions # <<>> =>
                      /\ DateParse(entry.metadata.dateRange.earliest) \in StoredInstants(entry)
                      /\ DateParse(entry.metadata.dateRange.latest) \in StoredInstants(entry)
                      /\ \A t \in StoredInstants(entry) :
                            /\ DateParse(entry.metadata.dateRange.earliest) <= t
                            /\ t <= DateParse(entry.metadata.dateRange.latest)

\* a save merged a batch into an entry found on the disk; the entry now
\* counts more contributions than the batch held and spans two instants
C23_Witness ==
    \E i \in DOMAIN saves :
        /\ i = Len(saves)
        /\ NoSaveWriting
        /\ saves[i].before # <<>>
        /\ LET entry == FileAt(files, saves[i].filePath)
           IN  /\ entry.metadata.contributionCount > Len(saves[i].newContributions)
               /\ saves[i].newContributions # <<>>
               /\ DateParse(entry.metadata.dateRange.earliest)
                    < DateParse(entry.metadata.dateRange.latest)

\* the characters of a username of the vocabulary
Characters(username) ==
    CASE username = "alice" -> <<"a", "l", "i", "c", "e">>
      [] username = "Alice" -> <<"A", "l", "i", "c", "e">>
      [] username = "octo.cat" -> <<"o", "c", "t", "o", ".", "c", "a", "t">>
      [] username = "octo@cat" -> <<"o", "c", "t", "o", "@", "c", "a", "t">>
      [] username = "octo_cat" -> <<"o", "c", "t", "o", "_", "c", "a", "t">>
      [] username = "octo-cat" -> <<"o", "c", "t", "o", "-", "c", "a", "t">>
      [] username = "octo cat" -> <<"o", "c", "t", "o", " ", "c", "a", "t">>
      [] username = "user@example.com" ->
            <<"u", "s", "e", "r", "@", "e", "x", "a", "m", "p", "l", "e", ".", "c", "o", "m">>
      [] username = "a/b" -> <<"a", "/", "b">>
      [] username = "a_b" -> <<"a", "_", "b">>
      [] username = ".." -> <<".", ".">>
      [] username = "__" -> <<"_", "_">>

\* the characters of the class [A-Za-z0-9_-]
FileNameCharacters ==
    {"a", "b", "c", "d", "e", "f", "g", "h", "i", "j", "k", "l", "m",
     "n", "o", "p", "q", "r", "s", "t", "u", "v", "w", "x", "y", "z",
     "A", "B", "C", "D", "E", "F", "G", "H", "I", "J", "K", "L", "M",
     "N", "O", "P", "Q", "R", "S", "T", "U", "V", "W", "X", "Y", "Z",
     "0", "1", "2", "3", "4", "5", "6", "7", "8", "9", "_", "-"}

\* the username with every character outside the class replaced by "_"
ReplacedOutsideClass(username) ==
    [i \in DOMAIN Characters(username) |->
        IF Characters(username)[i] \in FileNameCharacters
        THEN Characters(username)[i] ELSE "_"]

PathCalls == { i \in DOMAIN calls : calls[i].op = "path" }

\* C21: on one platform two usernames get the same cache file name if and
\* only if they are the same string once every character outside
\* [A-Za-z0-9_-] is replaced by "_"; the same username always gets the same
\* file.
C21_SameFileIffSameSanitizedName ==
    \A i, j \in PathCalls :
        calls[i].platform = calls[j].platform =>
            (calls[i].filePath = calls[j].filePath
                <=> ReplacedOutsideClass(calls[i].username) = ReplacedOutsideClass(calls[j].username))

\* the file of octo.cat and of octo@cat was asked for on one platform and is
\* the same, while octo-cat has another
C21_Witness ==
    /\ \E i, j \in PathCalls :
         /\ calls[i].platform = calls[j].platform
         /\ calls[i].username = "octo.cat"
         /\ calls[j].username = "octo@cat"
         /\ calls[i].filePath = calls[j].filePath
         /\ calls[i].filePath # getCacheFilePath(calls[i].platform, "octo-cat")

\* the clearCache calls that succeeded
Clears == { i \in DOMAIN calls : calls[i].op = "clear" /\ calls[i].promise.status = "fulfilled" }

\* the identities (platform, sanitized username) of the first n saves
IdentitiesSaved(n) ==
    { <<saves[k].platform, ReplacedOutsideClass(saves[k].username)>> : k \in 1..n }

\* C24: clearCache deletes every cache file and returns the number of cache
\* files it deleted, 0 when there was none; called after a sequence of saves
\* into an empty cache it returns the number of distinct identities saved,
\* and a status asked for afterwards reports that no cache exists (said of
\* the calls that are fulfilled).
C24_ClearDeletesAndCounts ==
    \A i \in Clears :
        /\ JsonFiles(calls[i].after) = {}
        /\ calls[i].promise.value = Cardinality(JsonFiles(calls[i].before))
        /\ JsonFiles(calls[i].before) = {} => calls[i].promise.value = 0
        /\ (\A k \in 1..(i - 1) : calls[k].op = "save") =>
              calls[i].promise.value = Cardinality(IdentitiesSaved(calls[i].saved))
        /\ \A j \in DOMAIN calls :
              (j = i + 1 /\ calls[j].op = "status" /\ calls[j].promise.status = "fulfilled")
                 => ~calls[j].promise.value.exists

\* three saves, for octo.cat and octo@cat on one platform and for octo.cat on
\* the other, then a clear that returned 2, then a status that reports no cache
C24_Witness ==
    /\ Len(saves) = 3
    /\ 4 \in Clears
    /\ calls[4].saved = 3
    /\ { <<saves[k].platform, saves[k].username>> : k \in 1..3 }
          = { <<"github", "octo.cat">>, <<"github", "octo@cat">>, <<"gitlab", "octo.cat">> }
    /\ calls[4].promise.value = 2
    /\ Len(calls) >= 5
    /\ calls[5].op = "status"
    /\ calls[5].promise.status = "fulfilled"
    /\ ~calls[5].promise.value.exists

----------------------------------------------------------------------------
(* Cache Store: claims about overlapping calls *)

SaveCalls == { i \in DOMAIN calls : calls[i].op = "save" }

KeysOf(cs) == { makeKey(cs[k]) : k \in DOMAIN cs }

\* two saves of one identity, both finished, each of which read the cache
\* file before the other opened it for writing
BothLoadedBeforeEitherWrote(i, j) ==
    /\ i \in SaveCalls /\ j \in SaveCalls /\ i # j
    /\ calls[i].platform = calls[j].platform /\ calls[i].username = calls[j].username
    /\ calls[i].pc = "done" /\ calls[j].pc = "done"
    /\ j \notin calls[i].opened /\ i \notin calls[j].opened

\* the contributions call j was given that the stored entry has no record for
Omitted(j) ==
    LET stored == FileAt(files, getCacheFilePath(calls[j].platform, calls[j].username))
    IN  { k \in DOMAIN calls[j].newContributions :
            makeKey(calls[j].newContributions[k]) \notin KeysOf(stored.contributions) }

\* C26: concurrent saves of one identity are not race-free.  When two
\* overlapping saves have both loaded the prior entry before either wrote and
\* the file holds the entry of call i, that entry is built from what call i
\* loaded and the batch of call i alone: of the batch of the other call it
\* has only what those two happen to hold as well, the rest is lost.
C26_LastWriterOmitsTheOtherBatch ==
    \A i \in DOMAIN calls : \A j \in DOMAIN calls :
       LET filePath == getCacheFilePath(calls[i].platform, calls[i].username)
       IN  (BothLoadedBeforeEitherWrote(i, j) /\ FileAt(files, filePath) = calls[i].cacheEntry) =>
              KeysOf(files[filePath].contributions) =
                 KeysOf(calls[i].existingContributions) \cup KeysOf(calls[i].newContributions)

\* both saves loaded the entry of an earlier run before either wrote, both
\* have returned, and the stored entry lacks a Contribution one was given
C26_Witness ==
    \E i \in DOMAIN calls : \E j \in DOMAIN calls :
       /\ BothLoadedBeforeEitherWrote(i, j)
       /\ calls[i].existingContributions # <<>>
       /\ calls[j].existingContributions = calls[i].existingContributions
       /\ FileAt(files, getCacheFilePath(calls[i].platform, calls[i].username)) = calls[i].cacheEntry
       /\ Omitted(j) # {}

LoadCalls == { i \in DOMAIN calls : calls[i].op = "load" /\ calls[i].pc = "done" }

\* the entries the cache file of the identity holds at one time or another:
\* what an earlier run left (nothing, or its entry) and what the saves write
WholeEntries(platform, username) ==
    {NoFile, StoredEntry(platform, username)}
       \cup { calls[j].cacheEntry :
                 j \in { s \in SaveCalls : calls[s].pc \in {"loaded", "writing", "done"} } }

\* C27: a Cache Entry is replaced wholesale.  A load, at whatever point it
\* runs relative to the saves of its identity, reads a complete entry (the
\* one before a save or the one after it) and returns the contributions of
\* that entry.
C27_LoadObservesWholeEntry ==
    \A i \in LoadCalls :
       /\ calls[i].observed \in WholeEntries(calls[i].platform, calls[i].username)
       /\ calls[i].promise.value = calls[i].observed.contributions

----------------------------------------------------------------------------
(* Report Generator: claims *)

WithoutProjectId(c) == [c EXCEPT !.projectId = UNDEF]

FulfilledContributions ==
    UNION { SeqToSet(settled[i].value) : i \in { k \in DOMAIN settled : settled[k].status = "fulfilled" } }

\* C7: whatever connectors reject, generateReport returns: the report holds
\* only Contributions of fulfilled connectors, one per deduplication key,
\* every fetched key represented, ordered by descending timestamp.
C7_PartialFailureTolerated ==
    /\ rpc # "failed"
    /\ rpc = "returned" =>
        /\ \A i \in DOMAIN report : WithoutProjectId(report[i]) \in FulfilledContributions
        /\ \A c \in FulfilledContributions : KeptOrSuperseded(c, report)
        /\ \A i, j \in DOMAIN report : i # j => DedupKey(report[i]) # DedupKey(report[j])
        /\ \A i, j \in DOMAIN report :
              i < j => DateParse(report[i].timestamp) >= DateParse(report[j].timestamp)

C7_Witness ==
    /\ rpc = "returned"
    /\ settled[1].status = "rejected"
    /\ settled[2].status = "fulfilled"
    /\ settled[2].value = <<EarlyPr, EarlyCommit, TrunkCommit>>
    /\ Len(report) = 3
    /\ report[1].url = CommitUrl1
    /\ report[1].projectId = "PROJECT-123"

\* C13 as stated: a returned Contribution carries projectId if and only if
\* its repository equals a key of repositoryProjectIds, and then that key's
\* value; every other one has no projectId.
C13_ProjectIdIffKey ==
    rpc = "returned" =>
        \A i \in DOMAIN report :
            IF report[i].repository \in DOMAIN repositoryProjectIds
            THEN report[i].projectId = repositoryProjectIds[report[i].repository]
            ELSE report[i].projectId = UNDEF

\* C13 amended: a returned Contribution carries projectId if and only if its
\* repository equals a key of repositoryProjectIds whose value is a non-empty
\* string, and then that value; every other one has no projectId.
C13_ProjectIdIffKeyWithValue ==
    rpc = "returned" =>
        \A i \in DOMAIN report :
            IF /\ report[i].repository \in DOMAIN repositoryProjectIds
               /\ repositoryProjectIds[report[i].repository] # ""
            THEN report[i].projectId = repositoryProjectIds[report[i].repository]
            ELSE report[i].projectId = UNDEF

\* a report with a Contribution of the mapped repository, enriched, and one of
\* another repository, left without projectId
C13_Witness ==
    /\ rpc = "returned"
    /\ repositoryProjectIds = [r \in {"o/r"} |-> "PROJECT-123"]
    /\ \E i \in DOMAIN report :
         report[i].repository = "o/r" /\ report[i].projectId = "PROJECT-123"
    /\ \E i \in DOMAIN report :
         report[i].repository = "o/other" /\ report[i].projectId = UNDEF

\* C14: the list generateReport returns, and the one generateCommitsReport
\* returns, is ordered by descending timestamp: of two adjacent elements the
\* earlier one's instant is not before the later one's.
C14_SortedDescending ==
    rpc = "returned" =>
        \A i \in 1..(Len(report) - 1) :
            DateParse(report[i].timestamp) >= DateParse(report[i + 1].timestamp)

\* generateCommitsReport returned three Contributions of three instants,
\* newest first, that the connectors had not delivered in that order
C14_Witness ==
    /\ rcall = "generateCommitsReport"
    /\ rpc = "returned"
    /\ Len(report) = 3
    /\ report[1].timestamp = T3
    /\ report[2].timestamp = T2
    /\ report[3].timestamp \in {T1, T1b}
    /\ CollectFulfilled(settled)[1].timestamp # T3

\* what the two fetch calls of the connectors in cs returned, over both calls
ReturnedByCalls(cs) ==
    UNION { SeqToSet(calledBoth[i].allCommits.value)
              \cup SeqToSet(calledBoth[i].contributions.value) : i \in cs }

\* the connectors whose two fetch calls both succeeded
BothSucceeded ==
    { i \in DOMAIN calledBoth : /\ calledBoth[i].allCommits.status = "fulfilled"
                                 /\ calledBoth[i].contributions.status = "fulfilled" }

\* C15 as stated: every Contribution returned by fetchAllCommits or by
\* fetchContributions of a connector is represented in the commits report by
\* a Contribution with the same deduplication key, and the report holds
\* nothing that neither call returned.
C15_UnionOfBothCalls ==
    (rcall = "generateCommitsReport" /\ rpc = "returned") =>
        /\ \A c \in ReturnedByCalls(DOMAIN calledBoth) :
              \E i \in DOMAIN report : makeKey(report[i]) = makeKey(c)
        /\ \A i \in DOMAIN report :
              WithoutProjectId(report[i]) \in ReturnedByCalls(DOMAIN calledBoth)

\* C15 amended: the same over the connectors whose two calls both succeeded;
\* a connector one of whose calls failed contributes nothing to the report.
C15_UnionOfBothCallsThatSucceeded ==
    (rcall = "generateCommitsReport" /\ rpc = "returned") =>
        /\ \A c \in ReturnedByCalls(BothSucceeded) :
              \E i \in DOMAIN report : makeKey(report[i]) = makeKey(c)
        /\ \A i \in DOMAIN report :
              WithoutProjectId(report[i]) \in ReturnedByCalls(BothSucceeded)

\* one connector returned a commit on a feature branch from fetchAllCommits
\* and the same commit on main, with another, from fetchContributions; the
\* other connector's fetchContributions failed after its fetchAllCommits had
\* returned a commit
C15_Witness ==
    /\ rcall = "generateCommitsReport"
    /\ rpc = "returned"
    /\ calledBoth[1].allCommits = Fulfilled(<<FeatureCommit>>)
    /\ calledBoth[1].contributions = Fulfilled(<<MainCommit, EarlyCommit>>)
    /\ calledBoth[2].allCommits = Fulfilled(<<OtherRepoCommit, FeatureCommit>>)
    /\ calledBoth[2].contributions = Rejected
    /\ Len(report) = 2
    /\ WithoutProjectId(report[1]) = MainCommit
    /\ WithoutProjectId(report[2]) = EarlyCommit

----------------------------------------------------------------------------
(* GitHub connector: claims *)

\* the urls of the commit Contributions of a returned list
CommitUrls(list) ==
    { list[i].url : i \in { j \in DOMAIN list : list[j].type = "commit" } }

\* the commit nodes the upstream served, over all pages of all histories
ServedCommits == UNION { { s.commits[n] : n \in DOMAIN s.commits } : s \in served }

InRequestedWindow(timestamp) ==
    /\ timestamp # UNDEF
    /\ ParseOrNaN(timestamp) # NaN
    /\ ParseOrNaN(timestamp) >= ParseOrNaN(FromDate)
    /\ ParseOrNaN(timestamp) <= ParseOrNaN(ToDate)

\* C8: every commit fetchContributions returns was served with an author
\* identity equal to the authenticated login, and no served commit whose
\* author is somebody else or has no linked account is returned, on the
\* first page as on later pages.
C8_OnlyOwnCommits ==
    (gcall = "fetchContributions" /\ gpc = "returned") =>
        /\ \A url \in CommitUrls(gresult) :
             \E node \in ServedCommits : node.url = url /\ node.authorLogin = login
        /\ \A node \in ServedCommits :
             node.authorLogin # login => node.url \notin CommitUrls(gresult)

\* the call returned the user's commits of the first and of a later page while
\* both pages also held commits of another contributor and of an author
\* without linked account
C8_Witness ==
    /\ gcall = "fetchContributions"
    /\ gpc = "returned"
    /\ "https://github.com/o/r/commit/a1" \in CommitUrls(gresult)
    /\ "https://github.com/o/r/commit/d4" \in CommitUrls(gresult)
    /\ \E s \in served :
         /\ s.unit = "history"
         /\ \E n \in DOMAIN s.commits : s.commits[n].authorLogin = "hubot"
         /\ \E n \in DOMAIN s.commits : s.commits[n].authorLogin = UNDEF
    /\ \E s \in served :
         /\ s.unit = "page"
         /\ \E n \in DOMAIN s.commits : s.commits[n].authorLogin = "hubot"
    /\ \E s \in served :
         /\ s.unit = "page"
         /\ \E n \in DOMAIN s.commits : s.commits[n].authorLogin = UNDEF

\* C9: a fetch call (fetchContributions or fetchAllCommits) returns a result
\* only if the identity call and the primary discovery query both succeeded;
\* when either fails or answers with an error payload the call fails.
C9_PrimaryFailureIsFatal ==
    gpc = "returned" => (identity = "ok" /\ discovery = "ok")

\* a served unit whose request failed
FailedUnit(s) ==
    IF s.unit = "page" THEN s.kind # "page" ELSE s.kind # "ok"

\* the Contributions of a returned list that stem from the unit
FromUnit(list, s) ==
    { i \in DOMAIN list :
        /\ list[i].repository = s.repositoryName
        /\ s.unit \in {"branch", "pull", "page"} => list[i].target = s.name }

\* the urls of the commits a unit that succeeded has to contribute
OwedBy(s) ==
    CASE s.unit \in {"history", "page"} ->
            { s.commits[n].url : n \in { m \in DOMAIN s.commits :
                /\ InRequestedWindow(s.commits[m].committedDate)
                /\ s.commits[m].authorLogin = login } }
      [] s.unit = "branch" ->
            { s.commits[n].html_url : n \in { m \in DOMAIN s.commits :
                s.commits[m].authorDate # UNDEF } }
      [] s.unit = "pull" ->
            { s.commits[n].html_url : n \in { m \in DOMAIN s.commits :
                /\ InRequestedWindow(s.commits[m].authorDate)
                /\ login \in {s.commits[m].authorLogin, s.commits[m].committerLogin} } }
      [] OTHER -> {}

\* C10: once identity and discovery succeeded, the failure of a sub-fetch
\* (a repository's listing, a branch, a pull request, a later page of a
\* history) never fails the fetch call; at its return a failed repository,
\* branch or pull request has contributed nothing and every commit a
\* succeeded unit owes is in the result.
C10_SubFetchFailureIsolated ==
    /\ (identity = "ok" /\ discovery = "ok") => gpc # "failed"
    /\ (gpc = "returned" /\ identity = "ok" /\ discovery = "ok") =>
         \A s \in served :
            /\ (FailedUnit(s) /\ s.unit # "page") => FromUnit(gresult, s) = {}
            /\ ~FailedUnit(s) => OwedBy(s) \subseteq CommitUrls(gresult)

\* fetchAllCommits returned although the listing of one repository, one
\* branch and one pull request of another repository failed; the commits of
\* the branch and of the pull request that succeeded are in the result
C10_Witness ==
    /\ gcall = "fetchAllCommits"
    /\ gpc = "returned"
    /\ \E s \in served : s.unit \in {"branches", "pulls"} /\ s.kind = "throws"
                         /\ s.repositoryName = "o/lib"
    /\ \E s \in served : s.unit = "branch" /\ s.kind = "throws" /\ s.repositoryName = "o/r"
    /\ \E s \in served : s.unit = "pull" /\ s.kind = "throws" /\ s.repositoryName = "o/r"
    /\ \E s \in served : s.unit = "branch" /\ s.kind = "ok" /\ s.repositoryName = "o/r"
                         /\ OwedBy(s) # {} /\ OwedBy(s) \subseteq CommitUrls(gresult)
    /\ \E s \in served : s.unit = "pull" /\ s.kind = "ok" /\ s.repositoryName = "o/r"
                         /\ OwedBy(s) # {} /\ OwedBy(s) \subseteq CommitUrls(gresult)

\* the commit list the upstream holds for a pull request, resp. a branch
UpstreamPullRequestCommits(repositoryName, pullRequest) ==
    (CHOOSE r \in PullRequestCommitResponses(repositoryName, pullRequest) : r.kind = "ok").commits

UpstreamBranchCommits(repositoryName, branchName) ==
    (CHOOSE r \in BranchCommitResponses(repositoryName, branchName) : r.kind = "ok").commits

\* a commit of the user inside the requested window
OwnCommitInWindow(commit) ==
    /\ InRequestedWindow(commit.authorDate)
    /\ login \in {commit.authorLogin, commit.committerLogin}

\* the closed pull requests of a repository that are merged and user-authored
MergedUserPullRequests(task) ==
    { pullRequest \in SeqToSet(task.pullsList.value) :
        Truthy(pullRequest.merged_at) /\ pullRequest.userLogin = login }

MergedInWindow(pullRequest) == InRequestedWindow(pullRequest.merged_at)

\* the source branch of the pull request is gone and no live branch of the
\* repository holds the commit
OnlyThroughPullRequest(task, pullRequest, commit) ==
    /\ pullRequest.headRef \notin SeqToSet(task.branchesList.value)
    /\ \A branchName \in SeqToSet(task.branchesList.value) :
          \A n \in DOMAIN UpstreamBranchCommits(task.repositoryName, branchName) :
             UpstreamBranchCommits(task.repositoryName, branchName)[n].html_url # commit.html_url

\* one of the two listings of the repository failed: fetchRepositoryCommits
\* left through its catch block
ListingFailed(task) ==
    task.branchesList.status = "rejected" \/ task.pullsList.status = "rejected"

\* pulls.listCommits of the pull request failed
CommitListFailed(task, pullRequest) ==
    Served("pull", task.repositoryName, pullRequest.headRef, "throws", <<>>) \in served

\* the Contributions of a returned list that stem from the repository, resp.
\* from the commit list of the pull request
FromRepository(list, task) ==
    { n \in DOMAIN list : list[n].repository = task.repositoryName }

FromPullRequest(list, task, pullRequest) ==
    { n \in DOMAIN list : /\ list[n].repository = task.repositoryName
                          /\ list[n].target = pullRequest.headRef }

\* the commits of the user in the window that only the pull request yields
RecoverableOnlyThrough(task, pullRequest) ==
    { commit \in SeqToSet(UpstreamPullRequestCommits(task.repositoryName, pullRequest)) :
        OwnCommitInWindow(commit) /\ OnlyThroughPullRequest(task, pullRequest, commit) }

\* C17 (as stated): fetchAllCommits returns every commit of the user in
\* [from, to] that is recoverable only through a merged, user-authored pull
\* request whose source branch was deleted, author or committer being the
\* authenticated user; read over the pull requests the listing of a
\* discovered repository holds.
C17_EveryMergedPullRequestCommit ==
    (gcall = "fetchAllCommits" /\ gpc = "returned") =>
        \A i \in DOMAIN rtasks :
            \A pullRequest \in MergedUserPullRequests(rtasks[i]) :
                \A commit \in RecoverableOnlyThrough(rtasks[i], pullRequest) :
                    commit.html_url \in CommitUrls(gresult)

\* C17 (amended): fetchAllCommits returns every such commit of the merged,
\* user-authored pull requests that were merged inside [from, to]; a
\* repository one of whose two listings failed contributes nothing, and a
\* pull request whose commit list could not be fetched contributes none of
\* its commits.
C17_EveryCommitOfPullRequestMergedInWindow ==
    (gcall = "fetchAllCommits" /\ gpc = "returned") =>
        \A i \in DOMAIN rtasks :
            /\ ListingFailed(rtasks[i]) => FromRepository(gresult, rtasks[i]) = {}
            /\ ~ListingFailed(rtasks[i]) =>
                  \A pullRequest \in MergedUserPullRequests(rtasks[i]) :
                     MergedInWindow(pullRequest) =>
                        IF CommitListFailed(rtasks[i], pullRequest)
                        THEN FromPullRequest(gresult, rtasks[i], pullRequest) = {}
                        ELSE \A commit \in RecoverableOnlyThrough(rtasks[i], pullRequest) :
                                commit.html_url \in CommitUrls(gresult)

\* fetchAllCommits returned the commit of a deleted source branch whose author
\* has no linked account and whose committer is the user, taken from the
\* commit list of the user's pull request merged in the window, while the
\* commit of a pull request merged after the window is not in the result
C17_Witness ==
    /\ gcall = "fetchAllCommits"
    /\ gpc = "returned"
    /\ \E i \in DOMAIN rtasks :
         /\ ~ListingFailed(rtasks[i])
         /\ \E pullRequest \in MergedUserPullRequests(rtasks[i]) :
               /\ MergedInWindow(pullRequest)
               /\ ~CommitListFailed(rtasks[i], pullRequest)
               /\ \E commit \in RecoverableOnlyThrough(rtasks[i], pullRequest) :
                     /\ commit.authorLogin = UNDEF
                     /\ commit.committerLogin = login
                     /\ \E n \in DOMAIN gresult :
                           /\ gresult[n].url = commit.html_url
                           /\ gresult[n].target = pullRequest.headRef
         /\ \E pullRequest \in MergedUserPullRequests(rtasks[i]) :
               /\ ~MergedInWindow(pullRequest)
               /\ \E commit \in RecoverableOnlyThrough(rtasks[i], pullRequest) :
                     commit.html_url \notin CommitUrls(gresult)

----------------------------------------------------------------------------
\* the merged pull requests of the user among those the listing of a repository returned
MergedPullRequestsOf(task) ==
    filterUserMergedPullRequests(task.pullsList.value, login, parseDateRangeTimestamps(DateRange))

\* both listings of the repository have arrived: its branches and its pull
\* requests, the units of the fan-out within the repository, are known
UnitsKnown(task) ==
    task.branchesList.status = "fulfilled" /\ task.pullsList.status = "fulfilled"

\* C28: a slow or failing unit neither blocks nor fails its siblings.  Within
\* a repository of fetchAllCommits, once its branches and pull requests are
\* known, the commit request of every branch and of every merged pull request
\* of the user has been issued, whichever of them are still outstanding; and
\* when the repository is through, the result of every one of them is in what
\* it contributes.
C28_SiblingsNeitherBlockedNorFailed ==
    \A i \in DOMAIN rtasks :
       LET task == rtasks[i]
       IN  UnitsKnown(task) =>
              /\ Len(task.branchResults) = Len(task.branchesList.value)
              /\ Len(task.pullResults) = Len(MergedPullRequestsOf(task))
              /\ task.phase = "done" =>
                    task.contributions = Values(task.branchResults) \o Values(task.pullResults)

\* the page signals that more pages exist and tells where they start
SignalsMore(page) ==
    page.kind \in {"history", "page"} /\ page.hasNextPage /\ Truthy(page.endCursor)

\* the commits of the user on a page: dated within the range the request
\* filters by, with the user as author
UserCommitsOn(page) ==
    { n \in DOMAIN page.nodes :
        /\ Truthy(page.nodes[n].committedDate)
        /\ ParseOrNaN(page.nodes[n].committedDate) # NaN
        /\ ~OutsideRange(ParseOrNaN(page.nodes[n].committedDate), parseDateRangeTimestamps(DateRange))
        /\ page.nodes[n].authorLogin = login }

\* C29: pagination of a repository is carried through.  After every page of
\* a repository that signals more pages the next page of that repository and
\* branch has been requested, from the end cursor of that page and with the
\* date filters of the call; fetchContributions returns only when the last
\* page of every repository signals no more pages (or its request failed),
\* and the user's commits of every page that arrived are in its result.
C29_PaginatesUntilExhausted ==
    \A i \in DOMAIN tasks :
       LET task == tasks[i]
       IN  /\ \A k \in DOMAIN task.pageInfos :
                 SignalsMore(task.pageInfos[k]) =>
                    /\ k \in DOMAIN task.requests
                    /\ task.requests[k] = [repositoryName |-> task.repositoryName,
                                           branch |-> "refs/heads/" \o task.branchName,
                                           cursor |-> task.pageInfos[k].endCursor,
                                           from |-> FromDate,
                                           to |-> ToDate]
           /\ gpc = "returned" =>
                 /\ task.pageInfos # <<>> => ~SignalsMore(task.pageInfos[Len(task.pageInfos)])
                 /\ \A k \in DOMAIN task.pageInfos :
                       task.pageInfos[k].kind \in {"history", "page"} =>
                          \A n \in UserCommitsOn(task.pageInfos[k]) :
                             CommitContribution(task.pageInfos[k].nodes[n], task.repositoryName,
                                                task.branchName) \in SeqToSet(gresult)

\* fetchContributions has returned after three pages of one repository, the
\* first two signalling more pages, and a commit of the user from the third
\* page is in the result
C29_Witness ==
    /\ gcall = "fetchContributions"
    /\ gpc = "returned"
    /\ \E i \in DOMAIN tasks :
          /\ Len(tasks[i].pageInfos) = 3
          /\ SignalsMore(tasks[i].pageInfos[1])
          /\ SignalsMore(tasks[i].pageInfos[2])
          /\ tasks[i].pageInfos[3].kind = "page"
          /\ tasks[i].requests[2].cursor = tasks[i].pageInfos[2].endCursor
          /\ tasks[i].requests[2].cursor # tasks[i].requests[1].cursor
          /\ \E n \in UserCommitsOn(tasks[i].pageInfos[3]) :
                CommitContribution(tasks[i].pageInfos[3].nodes[n], tasks[i].repositoryName,
                                   tasks[i].branchName) \in SeqToSet(gresult)

\* C30: pagination of one repository's commit history always terminates.
\* Whatever the upstream answers, fetchPaginatedCommits returns in the end:
\* the repository is no longer paginating.
C30_PaginationTerminates == <>(\A i \in DOMAIN tasks : ~tasks[i].paging)

----------------------------------------------------------------------------
(* GitLab connector: claims *)

\* the push events of the answer whose ref is a configured base branch
BasePushEvents ==
    { i \in DOMAIN events :
        /\ events[i].action_name \in {"pushed to", "pushed new"}
        /\ events[i].ref # UNDEF
        /\ \E b \in DOMAIN configuration.baseBranches :
              events[i].ref = "refs/heads/" \o configuration.baseBranches[b] }

\* the commit Contribution a push event stands for is in the list
PushReturned(list, event) ==
    \E n \in DOMAIN list :
        /\ list[n].type = "commit"
        /\ list[n].timestamp = event.created_at
        /\ list[n].text = event.commit_title
        /\ list[n].target = ReplaceRefsHeads(event.ref)

\* C18: fetchContributions(from, to) covers the closed interval: a push to a
\* base branch at an instant t with from <= t <= to, t = from and t = to
\* included, is returned, and nothing returned lies outside [from, to].
C18_ClosedInterval ==
    lpc = "returned" =>
        /\ \A i \in BasePushEvents :
              InRequestedWindow(events[i].created_at) => PushReturned(lresult, events[i])
        /\ \A n \in DOMAIN lresult : InRequestedWindow(lresult[n].timestamp)

\* C19: the list fetchContributions returns holds no two Contributions with
\* the same deduplication key.
C19_NoTwoWithSameKey ==
    lpc = "returned" =>
        \A m, n \in DOMAIN lresult :
            DedupKey(lresult[m]) = DedupKey(lresult[n]) => m = n

\* C20: every commit Contribution of the result stems from a push event whose
\* ref is refs/heads/<a configured base branch>, and a push to any other ref
\* has no commit Contribution in the result.
C20_OnlyConfiguredBaseBranches ==
    lpc = "returned" =>
        /\ \A n \in DOMAIN lresult :
              lresult[n].type = "commit" =>
                 /\ lresult[n].target \in SeqToSet(configuration.baseBranches)
                 /\ \E i \in BasePushEvents : PushReturned(<<lresult[n]>>, events[i])
        /\ \A i \in DOMAIN events :
              (/\ events[i].action_name \in {"pushed to", "pushed new"}
               /\ i \notin BasePushEvents
               /\ events[i].ref # UNDEF)
                 => ~\E n \in DOMAIN lresult :
                        /\ lresult[n].type = "commit"
                        /\ lresult[n].target = ReplaceRefsHeads(events[i].ref)

\* with the default configuration the answer held a push to main and a push
\* to feature inside the window: the first is returned, the second is not
C20_Witness ==
    /\ lpc = "returned"
    /\ configuration.baseBranches = DefaultBaseBranches
    /\ \E i \in DOMAIN events :
         /\ events[i] = PushEvent(T1, "refs/heads/feature", "Feature commit")
    /\ \E n \in DOMAIN lresult : lresult[n].text = "Main commit" /\ lresult[n].target = "main"
    /\ \A n \in DOMAIN lresult : lresult[n].text # "Feature commit"

====
